---- MODULE Spec2Model ----
(***************************************************************************)
(* LaTeXPackageManager (ai_scientist/utils/latex_helper/                   *)
(* latex_package_manager.py): the per-instance install cache, the retry    *)
(* loop of compile_latex_with_auto_install and the wrapper                 *)
(* compile_latex_with_validation.  One LaTeXPackageManager instance        *)
(* receives any sequence of top-level calls; every external tool           *)
(* (pdflatex, bibtex, tlmgr, the file system) answers nondeterministically.*)
(***************************************************************************)
EXTENDS Integers, Sequences, FiniteSets, TLC

\* ------------------------------------------------------------------ bounds
MaxAttemptsArg == 3    \* largest max_attempts argument tried (0..MaxAttemptsArg)
CallCap == 2           \* cap of the per-package tlmgr invocation counter

\* ------------------------------------------------------- program constants
\* The import of the template validator failing.
ValidatorImportFailed == FALSE

\* Lines 16-20: the package ships latex_template_validator, the import succeeds.
TEMPLATE_VALIDATOR_AVAILABLE == TRUE
SymlinkPackage == "iclr2025_icbinb"
Packages == {"pkgA", SymlinkPackage}
DefaultMaxAttempts == 3
RetryAttempts == 1
BibtexPasses == 2

\* ------------------------------------------------------------ log texts
\* A compiler log is the set of "File `name.ext' not found" lines it holds
\* and whether it holds one of the bibliography diagnostics; inv names the
\* compiler invocation that printed it (loop, attempt, pass).  The literal
\* strings the code returns in place of a log are records of another kind.
LogBodies ==
    { [files |-> {},                                              bib |-> FALSE],
      [files |-> {<<"fig", "pdf">>},                              bib |-> TRUE],
      [files |-> {<<"pkgA", "sty">>},                             bib |-> FALSE],
      [files |-> {<<"pkgA", "cls">>, <<SymlinkPackage, "sty">>},  bib |-> TRUE] }

LogText(n, body) == [kind |-> "log", inv |-> n, files |-> body.files, bib |-> body.bib]

Literal(k) == [kind |-> k, inv |-> <<0, 0, 0>>, files |-> {}, bib |-> FALSE]

NoRet == [ok |-> FALSE, log |-> Literal("none")]

NoCall == [pkg |-> "none", ret |-> FALSE, invoked |-> FALSE]

\* Every name a log can make the code hand to install_package.
Names == Packages \cup {"fig"}

\* The extraction without the filter on the .sty/.cls suffix.
ExtractAnyFile(log) == { f[1] : f \in log.files }

\* extract_missing_packages_from_log: the file-not-found lines filtered to
\* style and class files, suffix stripped, duplicates removed.
ExtractMissingPackages(log) ==
    { f[1] : f \in { g \in log.files : g[2] \in {"sty", "cls"} } }

\* detect_bibtex_compilation_errors: non-empty iff a pattern matches the text.
DetectBibtexErrors(log) == log.kind = "log" /\ log.bib

VARIABLES
    installed_packages, failed_packages,   \* the install cache
    tlmgrCalls,                            \* external install invocations per name
    lastInstall,                           \* the install_package call of this step
    pc, mode, outcome,                     \* control
    srcState, pdfExists, symlinkExists,    \* file system as observed
    max_attempts, attempt, log_content, rc, bib, passNo, passRc,
    missing_packages, todo, installed_any, \* locals of the retry loop
    primaryCount, allUnextract, symlinkMade, \* history of the loop
    ret,                                   \* value returned by the retry loop
    auto_fix, stages, loopsRun, extraFix, bibIssues, firstRet, vlocal, vret

cacheVars == <<installed_packages, failed_packages, tlmgrCalls>>
fsVars    == <<srcState, pdfExists, symlinkExists>>
loopVars  == <<max_attempts, attempt, log_content, rc, bib, passNo, passRc,
               missing_packages, todo, installed_any,
               primaryCount, allUnextract, symlinkMade, ret>>
wrapVars  == <<auto_fix, stages, loopsRun, extraFix, bibIssues, firstRet, vlocal, vret>>
managerVars == <<installed_packages, failed_packages, tlmgrCalls, lastInstall,
          pc, mode, outcome,
          srcState, pdfExists, symlinkExists,
          max_attempts, attempt, log_content, rc, bib, passNo, passRc,
          missing_packages, todo, installed_any,
          primaryCount, allUnextract, symlinkMade, ret,
          auto_fix, stages, loopsRun, extraFix, bibIssues, firstRet, vlocal, vret>>

\* One LaTeXTemplateValidator working on one source file
\* (latex_template_validator.py).  A buffer is a sequence of lexical units.
VARIABLES
    tex,                \* content of the source file, NoFile if it is absent
    structure_backup,   \* content of the .structure_backup sidecar, or NoFile
    issues_found,       \* issue kinds of the last validate_and_fix_template
    backup_created,     \* "backup_created" of the last result
    fix,                \* auto_fix argument of the last run
    original_content,   \* buffer the last run read
    checked,            \* buffers returned by the seven checks of the last run
    runs                \* number of validate_and_fix_template runs made

tvVars == <<tex, structure_backup, issues_found, backup_created, fix,
            original_content, checked, runs>>

\* The directory of that source file as compile_latex_with_validation and
\* its repair passes see it (latex_package_manager.py, lines 384-923).
VARIABLES
    working_dir,        \* os.path.dirname(tex_file) of the call
    figures,            \* figure files found in one of the three locations
    bibfile,            \* content of refs.bib in the directory, or NoFile
    bblfile,            \* content of the .bbl in the directory, or NoFile
    parent_bib,         \* content of a .bib in the parent directory, or NoFile
    backup,             \* content of the .backup sidecar, or NoFile
    syntax_backup,      \* contents of the two .syntax_backup sidecars
    report,             \* `issues' of the last validate_latex_file
    rpc,                \* step of compile_latex_with_validation
    called,             \* auto_fix of the call; the files as it found them
    compiled            \* sources handed to the attempt loop, in order

dirVars == <<working_dir, figures, parent_bib>>
repairVars == <<working_dir, figures, bibfile, bblfile, parent_bib, backup,
                syntax_backup, report, rpc, called, compiled>>
docVars == <<tvVars, repairVars>>
vars == <<managerVars, tvVars, repairVars>>

\* An absent file.
NoFile == <<"(absent)">>

\* A byte sequence that is not UTF-8 (a Latin-1 letter), as one unit.
Undecodable == "0xE9"

\* open(..., encoding='utf-8'): the read fails on such bytes.
Decodable(file) == \A i \in DOMAIN file : file[i] # Undecodable

\* open(..., encoding='utf-8', errors='ignore'): such bytes are dropped.
Decode(file) == SelectSeq(file, LAMBDA u : u # Undecodable)

\* The file exists and a strict read of it succeeds.
Readable(file) == file # NoFile /\ Decodable(file)

\* No validator run made.
NoTemplateRun ==
    /\ structure_backup = NoFile
    /\ issues_found = {}
    /\ backup_created = FALSE
    /\ fix = FALSE
    /\ original_content = NoFile
    /\ checked = <<>>
    /\ runs = 0

ManagerInit ==
    /\ installed_packages = {}
    /\ failed_packages = {}
    /\ tlmgrCalls = [p \in Names |-> 0]
    /\ lastInstall = NoCall
    /\ pc = "idle" /\ mode = "none" /\ outcome = "none"
    /\ srcState = "ok"
    /\ pdfExists = FALSE
    /\ symlinkExists = FALSE
    /\ max_attempts = 0 /\ attempt = 0 /\ log_content = Literal("none")
    /\ rc = "none" /\ bib = "none" /\ passNo = 0 /\ passRc = "none"
    /\ missing_packages = {} /\ todo = {} /\ installed_any = FALSE
    /\ primaryCount = 0 /\ allUnextract = TRUE
    /\ symlinkMade = FALSE
    /\ ret = NoRet
    /\ auto_fix = FALSE /\ stages = <<>> /\ loopsRun = 0 /\ extraFix = 0
    /\ bibIssues = FALSE /\ firstRet = NoRet /\ vlocal = NoRet /\ vret = NoRet

\* The report validate_latex_file starts from (lines 386-392; the list of
\* missing style files is left out: no pass reads it).
NoIssues == [missing_figures |-> {}, undefined_labels |-> {},
             undefined_citations |-> {}, warnings |-> {}]

\* No call: the value of `called' before compile_latex_with_validation.
NotCalled == [auto_fix |-> FALSE, tex |-> NoFile, bib |-> NoFile, bbl |-> NoFile]

\* No compile_latex_with_validation call made, no sidecar written.
NoRepairRun ==
    /\ backup = NoFile
    /\ syntax_backup = [bib |-> NoFile, bbl |-> NoFile]
    /\ report = NoIssues
    /\ rpc = "idle"
    /\ called = NotCalled
    /\ compiled = <<>>

EmptyDirectory ==
    /\ working_dir = "/run/latex"
    /\ figures = {}
    /\ bibfile = NoFile /\ bblfile = NoFile /\ parent_bib = NoFile

Init == ManagerInit /\ tex = NoFile /\ NoTemplateRun
        /\ EmptyDirectory /\ NoRepairRun


\* ------------------------------------------------------- install_package
InstallOutcomes == {"ok", "nonzero", "timeout", "exception"}

\* The cache lookup that forgets the failed set.
CacheAnswerInstalledOnly(p) ==
    IF p \in installed_packages THEN "installed" ELSE "unknown"

\* Lines 160-164: the cache is consulted first.
CacheAnswer(p) ==
    IF p \in installed_packages THEN "installed"
    ELSE IF p \in failed_packages THEN "failed"
    ELSE "unknown"

\* A name in either set is answered without running tlmgr.
InstallCached(p) == CacheAnswer(p) # "unknown"

\* The value install_package(p) returns when tlmgr answers o.
InstallReturn(p, o) ==
    CASE CacheAnswer(p) = "installed" -> TRUE
      [] CacheAnswer(p) = "failed" -> FALSE
      [] OTHER -> o = "ok"

\* installed_packages after install_package(p): added on exit code 0 only.
InstalledAfter(p, o) ==
    IF ~InstallCached(p) /\ o = "ok"
    THEN installed_packages \cup {p} ELSE installed_packages

\* failed_packages after install_package(p): non-zero exit, timeout, any error.
FailedAfter(p, o) ==
    IF ~InstallCached(p) /\ o # "ok"
    THEN failed_packages \cup {p} ELSE failed_packages

Bump(n) == IF n < CallCap THEN n + 1 ELSE n

\* The whole of install_package(p) with tlmgr answering o.
InstallPackage(p, o) ==
    /\ installed_packages' = InstalledAfter(p, o)
    /\ failed_packages' = FailedAfter(p, o)
    /\ tlmgrCalls' = IF InstallCached(p) THEN tlmgrCalls
                     ELSE [tlmgrCalls EXCEPT ![p] = Bump(@)]
    /\ lastInstall' = [pkg |-> p, ret |-> InstallReturn(p, o),
                       invoked |-> ~InstallCached(p)]

\* ------------------------------------------------------- top-level calls
ResetLoop(m) ==
    /\ max_attempts' = m /\ attempt' = 0 /\ log_content' = Literal("none")
    /\ rc' = "none" /\ bib' = "none" /\ passNo' = 0 /\ passRc' = "none"
    /\ missing_packages' = {} /\ todo' = {} /\ installed_any' = FALSE
    /\ primaryCount' = 0 /\ allUnextract' = TRUE /\ symlinkMade' = FALSE
    /\ ret' = NoRet

ResetWrap(af) ==
    /\ auto_fix' = af /\ stages' = <<>> /\ loopsRun' = 0 /\ extraFix' = 0
    /\ bibIssues' = FALSE /\ firstRet' = NoRet /\ vlocal' = NoRet /\ vret' = NoRet

\* The source file of a call is missing, exists but cannot be opened (no
\* permission, a directory), or is readable.
SourceStates == {"missing", "unreadable", "ok"}

\* A caller invokes manager.install_package(p) directly.
InstallCall(p) ==
    /\ pc = "idle"
    /\ \E o \in InstallOutcomes : InstallPackage(p, o)
    /\ mode' = "install" /\ outcome' = "returned"
    /\ ResetLoop(0) /\ ResetWrap(FALSE)
    /\ pdfExists' = FALSE
    /\ UNCHANGED <<pc, srcState, symlinkExists>>

\* A caller invokes compile_latex_with_auto_install(tex_file, m).
CompileCall(m) ==
    /\ pc = "idle"
    /\ mode' = "direct" /\ outcome' = "none" /\ pc' = "c_entry"
    /\ srcState' \in SourceStates
    /\ ResetLoop(m) /\ ResetWrap(FALSE)
    /\ pdfExists' = FALSE
    /\ lastInstall' = NoCall
    /\ UNCHANGED <<cacheVars, symlinkExists>>

\* A caller invokes compile_latex_with_validation(tex_file, m, af).
ValidationCall(m, af) ==
    /\ pc = "idle"
    /\ mode' = "validation" /\ outcome' = "none" /\ pc' = "v_structure"
    /\ srcState' \in SourceStates
    /\ ResetLoop(m) /\ ResetWrap(af)
    /\ pdfExists' = FALSE
    /\ lastInstall' = NoCall
    /\ UNCHANGED <<cacheVars, symlinkExists>>

\* ------------------------------------- compile_latex_with_auto_install
CompilerOutcomes == {"exit0", "exit1", "timeout", "exception"}
BibtexOutcomes == {"ok", "nonzero", "timeout", "missing"}
AuxStates == {"absent", "unreadable", "plain", "cites"}

\* A loop that runs once too often.
InRangeInclusive(i) == i <= max_attempts

\* for attempt in range(max_attempts): index i is iterated iff i < max_attempts.
InRange(i) == i < max_attempts

\* The statement `return ok, log' of the retry loop, delivered to its caller:
\* the direct caller, or compile_latex_with_validation which assigns the pair
\* to its own (success, log_content).
Return(ok, log) ==
    /\ ret' = [ok |-> ok, log |-> log]
    /\ IF mode = "direct"
       THEN /\ pc' = "idle" /\ outcome' = "returned"
            /\ UNCHANGED <<firstRet, vlocal>>
       ELSE /\ vlocal' = [ok |-> ok, log |-> log]
            /\ outcome' = outcome
            /\ IF loopsRun = 1
               THEN pc' = "v_post" /\ firstRet' = [ok |-> ok, log |-> log]
               ELSE pc' = "v_return" /\ firstRet' = firstRet

Goto(l) == pc' = l /\ UNCHANGED <<ret, outcome, firstRet, vlocal>>

\* The timeout test that compares with max_attempts instead of max_attempts - 1.
LastAttemptOffByOne(a) == a = max_attempts

\* Line 376: attempt == max_attempts - 1.
LastAttempt(a) == a = max_attempts - 1

\* An inner handler that lets timeouts through.
InnerCatchesErrorsOnly(o) == o \in {"missing", "exception"}

\* Line 314: `except Exception' around bibtex and the two further passes
\* catches the timeout and every other error of those subprocess calls.
InnerCatches(o) == o \in {"timeout", "missing", "exception"}

\* The success test without the check of the PDF.
PdfProducedUnchecked(exists) == TRUE

\* Line 319: os.path.exists(pdf_file).
PdfProduced(exists) == exists

\* installed_any set whatever install_package answered.
InstalledAnyAlways(any, r, link) == TRUE

\* Lines 353-365: installed_any after one package of the install loop.
InstalledAny(any, r, link) == any \/ r \/ link

\* End of one iteration of the for loop: the next index, or the statement
\* after the loop.
NextAttempt ==
    IF InRange(attempt + 1)
    THEN attempt' = attempt + 1 /\ Goto("c_primary")
    ELSE attempt' = attempt /\ Return(FALSE, Literal("max"))

\* Lines 374-377: the handler of subprocess.TimeoutExpired.
OnTimeout ==
    IF LastAttempt(attempt)
    THEN attempt' = attempt /\ Return(FALSE, Literal("timeout"))
    ELSE NextAttempt

\* Lines 378-380: the handler of every other exception.
OnException == attempt' = attempt /\ Return(FALSE, Literal("exception"))

wrapRest == <<auto_fix, stages, loopsRun, extraFix, bibIssues, vret>>

\* No line of the log names a missing style or class file.
NoPackageIn(log) == \A f \in log.files : f[2] \notin {"sty", "cls"}

\* Lines 244-250: the existence test and the first evaluation of the range.
C_Entry ==
    /\ pc = "c_entry"
    /\ IF srcState = "missing" THEN Return(FALSE, Literal("notfound"))
       ELSE IF InRange(0) THEN Goto("c_primary")
       ELSE Return(FALSE, Literal("max"))
    /\ lastInstall' = NoCall
    /\ UNCHANGED <<cacheVars, mode, fsVars, max_attempts, attempt,
                   log_content, rc, bib, passNo, passRc, missing_packages, todo,
                   installed_any, primaryCount, allUnextract,
                   symlinkMade, wrapRest>>

\* Lines 254-265 and 374-380: the primary pdflatex invocation of an attempt.
C_Primary ==
    /\ pc = "c_primary"
    /\ \E o \in CompilerOutcomes, body \in LogBodies :
         LET log == LogText(<<loopsRun, attempt, 0>>, body) IN
         /\ rc' = o
         /\ primaryCount' = primaryCount + 1
         /\ allUnextract' = (allUnextract /\ o = "exit1" /\ NoPackageIn(log))
         /\ CASE o = "timeout" -> log_content' = log_content /\ OnTimeout
              [] o = "exception" -> log_content' = log_content /\ OnException
              [] o = "exit0" ->
                   /\ log_content' = log /\ attempt' = attempt /\ Goto("c_aux")
              [] o = "exit1" ->
                   /\ log_content' = log /\ attempt' = attempt /\ Goto("c_extract")
    /\ bib' = "none" /\ passNo' = 0 /\ passRc' = "none"
    /\ missing_packages' = {} /\ todo' = {} /\ installed_any' = FALSE
    /\ symlinkMade' = FALSE
    /\ lastInstall' = NoCall
    /\ UNCHANGED <<cacheVars, mode, fsVars, max_attempts,
                   wrapRest>>

\* Lines 266-279: the auxiliary file decides whether bibtex is needed.
C_Aux ==
    /\ pc = "c_aux"
    /\ \E aux \in AuxStates :
         CASE aux = "unreadable" -> OnException
           [] aux = "cites" -> attempt' = attempt /\ Goto("c_bibtex")
           [] OTHER -> attempt' = attempt /\ Goto("c_pdf")
    /\ lastInstall' = NoCall
    /\ UNCHANGED <<cacheVars, mode, fsVars, max_attempts,
                   log_content, rc, bib, passNo, passRc, missing_packages, todo,
                   installed_any, primaryCount, allUnextract,
                   symlinkMade, wrapRest>>

\* Lines 281-290 and 310-316: the bibtex invocation.
C_Bibtex ==
    /\ pc = "c_bibtex"
    /\ \E o \in BibtexOutcomes :
         /\ bib' = o
         /\ CASE o = "ok" -> attempt' = attempt /\ Goto("c_pass")
              [] o = "nonzero" \/ InnerCatches(o) ->
                   attempt' = attempt /\ Goto("c_pdf")
              [] o = "timeout" -> OnTimeout
              [] OTHER -> OnException
    /\ lastInstall' = NoCall
    /\ UNCHANGED <<cacheVars, mode, fsVars, max_attempts,
                   log_content, rc, passNo, passRc, missing_packages, todo,
                   installed_any, primaryCount, allUnextract,
                   symlinkMade, wrapRest>>

MorePassesInclusive(n) == n <= BibtexPasses

\* Line 295: for bibtex_pass in range(2), n passes being made.
MorePasses(n) == n < BibtexPasses

\* Lines 295-309 (and 314): one further pdflatex pass after bibtex.
C_Pass ==
    /\ pc = "c_pass"
    /\ \E o \in CompilerOutcomes, body \in LogBodies :
         LET log == LogText(<<loopsRun, attempt, passNo + 1>>, body) IN
         /\ passRc' = o
         /\ passNo' = passNo + 1
         /\ CASE o = "exit0" ->
                   /\ attempt' = attempt
                   /\ IF MorePasses(passNo + 1)
                      THEN log_content' = log_content /\ Goto("c_pass")
                      ELSE log_content' = log /\ Goto("c_pdf")
              [] o = "exit1" ->
                   attempt' = attempt /\ log_content' = log /\ Goto("c_pdf")
              [] InnerCatches(o) ->
                   /\ attempt' = attempt /\ log_content' = log_content
                   /\ Goto("c_pdf")
              [] o = "timeout" -> log_content' = log_content /\ OnTimeout
              [] OTHER -> log_content' = log_content /\ OnException
    /\ lastInstall' = NoCall
    /\ UNCHANGED <<cacheVars, mode, fsVars,
                   max_attempts, rc, bib,
                   missing_packages, todo, installed_any, primaryCount,
                   allUnextract, symlinkMade, wrapRest>>

\* Lines 318-321: success needs the PDF on disk; exists is what
\* os.path.exists(pdf_file) answers at that moment.
C_Pdf ==
    /\ pc = "c_pdf"
    /\ \E exists \in BOOLEAN :
         /\ pdfExists' = exists
         /\ IF PdfProduced(exists)
            THEN Return(TRUE, log_content) /\ UNCHANGED <<bib, passNo, passRc>>
            ELSE /\ Goto("c_extract")
                 /\ bib' = "none" /\ passNo' = 0 /\ passRc' = "none"
    /\ lastInstall' = NoCall
    /\ UNCHANGED <<cacheVars, mode, srcState,
                   symlinkExists, max_attempts, attempt,
                   log_content, rc, missing_packages, todo,
                   installed_any, primaryCount, allUnextract,
                   symlinkMade, wrapRest>>

\* Lines 323-353: extraction; nothing extracted ends the loop.
C_Extract ==
    /\ pc = "c_extract"
    /\ missing_packages' = ExtractMissingPackages(log_content)
    /\ IF missing_packages' = {}
       THEN todo' = {} /\ Return(FALSE, log_content)
       ELSE todo' = missing_packages' /\ Goto("c_install")
    /\ installed_any' = FALSE
    /\ lastInstall' = NoCall
    /\ UNCHANGED <<cacheVars, mode, fsVars, max_attempts, attempt,
                   log_content, rc, bib, passNo, passRc,
                   primaryCount, allUnextract,
                   symlinkMade, wrapRest>>

\* Lines 354-368: one iteration of `for package in missing_packages'; sty is
\* whether iclr2025.sty exists in the working directory, sym whether
\* os.symlink succeeds.
C_Install ==
    /\ pc = "c_install" /\ todo # {}
    /\ \E p \in todo, o \in InstallOutcomes, sty \in BOOLEAN, sym \in {"ok", "fail"} :
         LET r == InstallReturn(p, o)
             link == /\ ~r /\ p = SymlinkPackage /\ sty
                     /\ ~symlinkExists /\ sym = "ok"
         IN /\ InstallPackage(p, o)
            /\ todo' = todo \ {p}
            /\ installed_any' = InstalledAny(installed_any, r, link)
            /\ symlinkExists' = (symlinkExists \/ link)
            /\ symlinkMade' = (symlinkMade \/ link)
    /\ Goto("c_install")
    /\ UNCHANGED <<mode, srcState, pdfExists,
                   max_attempts, attempt, log_content, rc, bib, passNo, passRc,
                   missing_packages, primaryCount, allUnextract,
                   wrapRest>>

\* Lines 370-372: after the install loop.
C_Decide ==
    /\ pc = "c_install" /\ todo = {}
    /\ IF ~installed_any
       THEN attempt' = attempt /\ Return(FALSE, log_content)
       ELSE NextAttempt
    /\ lastInstall' = NoCall
    /\ UNCHANGED <<cacheVars, mode, fsVars, max_attempts,
                   log_content, rc, bib, passNo, passRc, missing_packages, todo,
                   installed_any, primaryCount, allUnextract,
                   symlinkMade, wrapRest>>


\* ------------------------------------- compile_latex_with_validation
loopLocals == <<max_attempts, attempt, log_content, rc, bib, passNo, passRc,
                missing_packages, todo, installed_any, primaryCount,
                allUnextract, symlinkMade, ret>>

\* The exception leaves compile_latex_with_validation.
Raise == pc' = "idle" /\ outcome' = "raised"

\* Lines 820-843: step 0, the template structure validator (inside try).
V_Structure ==
    /\ pc = "v_structure"
    /\ stages' = IF TEMPLATE_VALIDATOR_AVAILABLE /\ auto_fix
                 THEN Append(stages, "structure") ELSE stages
    /\ pc' = "v_validate"
    /\ lastInstall' = NoCall
    /\ UNCHANGED <<cacheVars, mode, outcome, fsVars, loopLocals,
                   auto_fix, loopsRun, extraFix, bibIssues,
                   firstRet, vlocal, vret>>

\* validate_latex_file raises when the existing source cannot be opened
\* (line 400) or when no declared .bib gave a key and os.listdir of the
\* directory part of the path fails (line 493; os.listdir('') for a bare
\* file name, a directory without read permission).
ValidateRaises(declaredDefs, listable) ==
    \/ srcState = "unreadable"
    \/ srcState = "ok" /\ ~declaredDefs /\ ~listable

\* Lines 846-851 and 873: step 1, validate_latex_file (no try around it).
V_Validate ==
    /\ pc = "v_validate"
    /\ \E declaredDefs \in BOOLEAN, listable \in BOOLEAN, issues \in BOOLEAN :
         IF ValidateRaises(declaredDefs, listable)
         THEN Raise /\ stages' = stages
         ELSE /\ stages' = Append(stages, "validate")
              /\ outcome' = outcome
              /\ pc' = IF (srcState = "missing" \/ issues) /\ auto_fix
                       THEN "v_fix" ELSE "v_bib"
    /\ lastInstall' = NoCall
    /\ UNCHANGED <<cacheVars, mode, fsVars, loopLocals,
                   auto_fix, loopsRun, extraFix, bibIssues,
                   firstRet, vlocal, vret>>

\* Outcomes of a pass that lists or writes the directory: its two results,
\* or the OSError of os.listdir / open.
DirOutcomes(a, b) == {a, b, "raised"}

\* Lines 873-878: step 2, fix_latex_issues (no try around it).
V_Fix ==
    /\ pc = "v_fix"
    /\ \E o \in (IF srcState = "missing" THEN {"nothing"}
                 ELSE DirOutcomes("fixed", "nothing")) :
         IF o = "raised"
         THEN Raise /\ stages' = stages
         ELSE stages' = Append(stages, "fix") /\ pc' = "v_bib" /\ outcome' = outcome
    /\ lastInstall' = NoCall
    /\ UNCHANGED <<cacheVars, mode, fsVars, loopLocals,
                   auto_fix, loopsRun, extraFix, bibIssues,
                   firstRet, vlocal, vret>>

\* Lines 885-902: step 2.5, validate_and_fix_bibtex_files (inside try).
V_Bib ==
    /\ pc = "v_bib"
    /\ stages' = IF auto_fix THEN Append(stages, "bibsyntax") ELSE stages
    /\ pc' = "v_compile"
    /\ lastInstall' = NoCall
    /\ UNCHANGED <<cacheVars, mode, outcome, fsVars, loopLocals,
                   auto_fix, loopsRun, extraFix, bibIssues,
                   firstRet, vlocal, vret>>

\* Line 905: step 3, the attempt loop with the caller's max_attempts.
V_Compile ==
    /\ pc = "v_compile"
    /\ loopsRun' = loopsRun + 1
    /\ pc' = "c_entry"
    /\ lastInstall' = NoCall
    /\ UNCHANGED <<cacheVars, mode, outcome, fsVars, loopLocals,
                   auto_fix, stages, extraFix, bibIssues,
                   firstRet, vlocal, vret>>

\* The recompile made whatever the extra pass reported.
RecompileAlways(o) == TRUE

\* Line 919: the recompile is made only if the extra pass reported an issue.
Recompile(o) == o = "issues"

\* Lines 908-921: step 4, on failure with bibliography diagnostics one more
\* validate_and_fix_bibtex_files (no try around it) and one recompile.
\* The test `and log_content' of line 908 is implied: a text in which a
\* bibliography diagnostic is found is not empty.
V_Post ==
    /\ pc = "v_post"
    /\ IF ~vlocal.ok /\ DetectBibtexErrors(vlocal.log) /\ auto_fix
       THEN \E o \in DirOutcomes("issues", "clean") :
              /\ extraFix' = extraFix + 1
              /\ IF o = "raised"
                 THEN /\ Raise
                      /\ UNCHANGED <<stages, bibIssues, loopsRun, loopLocals>>
                 ELSE /\ stages' = Append(stages, "bibsyntax")
                      /\ bibIssues' = (o = "issues")
                      /\ outcome' = outcome
                      /\ IF Recompile(o)
                         THEN /\ loopsRun' = loopsRun + 1
                              /\ ResetLoop(RetryAttempts)
                              /\ pc' = "c_entry"
                         ELSE /\ pc' = "v_return"
                              /\ UNCHANGED <<loopsRun, loopLocals>>
       ELSE /\ pc' = "v_return"
            /\ UNCHANGED <<outcome, stages, bibIssues, loopsRun, extraFix,
                           loopLocals>>
    /\ lastInstall' = NoCall
    /\ UNCHANGED <<cacheVars, mode, fsVars, auto_fix,
                   firstRet, vlocal, vret>>

\* Line 923: return success, log_content.
V_Return ==
    /\ pc = "v_return"
    /\ vret' = vlocal
    /\ outcome' = "returned"
    /\ pc' = "idle"
    /\ lastInstall' = NoCall
    /\ UNCHANGED <<cacheVars, mode, fsVars, loopLocals,
                   auto_fix, stages, loopsRun, extraFix, bibIssues, firstRet,
                   vlocal>>

\* ------------------------------------------------------------ specification
Next ==
    \/ (\E p \in Packages : InstallCall(p)) /\ UNCHANGED docVars
    \/ (\E m \in 0..MaxAttemptsArg : CompileCall(m)) /\ UNCHANGED docVars
    \/ (\E m \in 0..MaxAttemptsArg, af \in BOOLEAN : ValidationCall(m, af)) /\ UNCHANGED docVars
    \/ C_Entry /\ UNCHANGED docVars
    \/ C_Primary /\ UNCHANGED docVars
    \/ C_Aux /\ UNCHANGED docVars
    \/ C_Bibtex /\ UNCHANGED docVars
    \/ C_Pass /\ UNCHANGED docVars
    \/ C_Pdf /\ UNCHANGED docVars
    \/ C_Extract /\ UNCHANGED docVars
    \/ C_Install /\ UNCHANGED docVars
    \/ C_Decide /\ UNCHANGED docVars
    \/ V_Structure /\ UNCHANGED docVars
    \/ V_Validate /\ UNCHANGED docVars
    \/ V_Fix /\ UNCHANGED docVars
    \/ V_Bib /\ UNCHANGED docVars
    \/ V_Compile /\ UNCHANGED docVars
    \/ V_Post /\ UNCHANGED docVars
    \/ V_Return /\ UNCHANGED docVars


Spec == Init /\ [][Next]_vars


\* ------------------------------------------------------------------ claims
\* The retry loop has returned to its caller.
LoopReturned == ret # NoRet

\* The log the loop returned is the text of its last primary invocation.
ReturnedLastLog ==
    /\ ~ret.ok /\ ret.log.kind = "log"
    /\ ret.log.inv = <<loopsRun, primaryCount - 1, 0>>

\* Every invocation of a max_attempts = 3 run failed with no package in its log.
AllFailedUnextractable ==
    /\ LoopReturned /\ max_attempts = DefaultMaxAttempts
    /\ primaryCount >= 1 /\ allUnextract

\* C1 as stated: when every compiler invocation of a max_attempts = 3 run
\* fails with a log naming no missing package, the call makes exactly 3
\* invocations and returns failure with the log of the last one.
C1_AsStated ==
    AllFailedUnextractable => (primaryCount = DefaultMaxAttempts /\ ReturnedLastLog)

\* C1 amended: in that case the call stops after its first invocation: it
\* makes exactly 1 compiler invocation and returns failure with that log.
C1_FirstFailureEndsRun ==
    AllFailedUnextractable => (primaryCount = 1 /\ ReturnedLastLog)

C1_Witness ==
    /\ AllFailedUnextractable /\ mode = "direct" /\ outcome = "returned"
    /\ ret.log.files = {<<"fig", "pdf">>}


LoopPcs == {"c_entry", "c_primary", "c_aux", "c_bibtex", "c_pass", "c_pdf",
            "c_extract", "c_install"}

\* The loop handed failure with the given text to its caller in this step.
ReturnsFailure(log) == ret' = [ok |-> FALSE, log |-> log] /\ pc' \notin LoopPcs

\* The step starts the next attempt.
StartsNextAttempt == pc' = "c_primary" /\ attempt' = attempt + 1 /\ ret' = NoRet

\* At the end of the install loop: a package extracted from this attempt's
\* log is installed, or the symlink fallback was created in this attempt.
SomethingInstalled ==
    (\E p \in missing_packages : p \in installed_packages) \/ symlinkMade

\* C2: after a failed attempt a further attempt is started if and only if
\* an extracted package is installed (or the symlink fallback was created)
\* and attempts remain; with nothing extracted, or nothing installed, the
\* loop ends at once and returns (False, log of that attempt).
C2_RetryIffInstalled ==
    [][ /\ (pc = "c_extract" /\ NoPackageIn(log_content))
            => ReturnsFailure(log_content)
        /\ (pc = "c_install" /\ todo = {} /\ SomethingInstalled
               /\ attempt + 1 < max_attempts)
            => StartsNextAttempt
        /\ (pc = "c_install" /\ todo = {} /\ ~SomethingInstalled)
            => ReturnsFailure(log_content)
        /\ (pc \in {"c_extract", "c_install"} /\ StartsNextAttempt)
            => (todo = {} /\ SomethingInstalled /\ attempt + 1 < max_attempts)
      ]_vars

C2_Witness ==
    /\ pc = "c_primary" /\ attempt = 1 /\ installed_any
    /\ missing_packages = {"pkgA"} /\ "pkgA" \in installed_packages

\* Strictly decreasing measure of the position inside the retry loop.
Rank ==
    (max_attempts - attempt) * 16
    + CASE pc = "c_entry" -> 15
        [] pc = "c_primary" -> 14
        [] pc = "c_aux" -> 13
        [] pc = "c_bibtex" -> 12
        [] pc = "c_pass" -> 11 - passNo
        [] pc = "c_pdf" -> 8
        [] pc = "c_extract" -> 7
        [] pc = "c_install" -> 1 + Cardinality(todo)
        [] OTHER -> 0

\* C3: for every max_attempts >= 0 and every behaviour of the external
\* tools the loop terminates (each step inside it lowers a non-negative
\* measure) after at most max_attempts primary compiler invocations.
C3_BoundedAttempts ==
    [][ (pc \in LoopPcs) =>
          ( /\ Rank >= 0
            /\ pc' \in LoopPcs => Rank' < Rank
            /\ primaryCount' <= max_attempts ) ]_vars

C3_Witness ==
    /\ LoopReturned /\ max_attempts = MaxAttemptsArg
    /\ primaryCount = max_attempts /\ ret.log.kind = "max"

\* C4: success is returned only by an attempt whose primary invocation
\* exited zero and whose PDF exists; a zero exit without PDF goes on to
\* the extraction of missing packages like a failed attempt.
C4_SuccessNeedsPdf ==
    [][ /\ (ret' # ret /\ ret'.ok)
            => (pc = "c_pdf" /\ rc = "exit0" /\ pdfExists')
        /\ (pc = "c_pdf" /\ ~pdfExists')
            => (pc' = "c_extract" /\ ret' = NoRet /\ attempt' = attempt)
      ]_vars

C4_Witness == pc = "c_extract" /\ rc = "exit0" /\ ~pdfExists /\ bib = "none"

BibtexFailures == {"nonzero", "timeout", "missing"}

\* C5: when the primary pass exits zero and bibtex fails (non-zero exit,
\* timeout, missing binary) the attempt goes on to the PDF test and is
\* reported as success whenever the PDF exists, in the same attempt.
C5_BibtexFailureTolerated ==
    [][ /\ (pc = "c_bibtex" /\ bib' \in BibtexFailures)
            => (pc' = "c_pdf" /\ attempt' = attempt
                /\ log_content' = log_content /\ ret' = NoRet)
        /\ (pc = "c_pdf" /\ bib \in BibtexFailures /\ pdfExists')
            => (ret' = [ok |-> TRUE, log |-> log_content]
                /\ attempt' = attempt /\ primaryCount' = primaryCount)
      ]_vars

C5_Witness == LoopReturned /\ ret.ok /\ bib = "missing" /\ rc = "exit0"

\* What the claim says of a timed-out invocation: one attempt is used up,
\* nothing is extracted or installed, the next attempt starts if one
\* remains and otherwise (False, "Compilation timeout") is returned.
TimeoutConsumesAttempt ==
    /\ UNCHANGED cacheVars /\ missing_packages' = {}
    /\ IF attempt + 1 < max_attempts
       THEN StartsNextAttempt
       ELSE ReturnsFailure(Literal("timeout"))

C7_NeverRaises == outcome # "raised"

\* C8: installed and failed stay disjoint; a name in either set is answered
\* from the cache (True if installed, False if failed) without running
\* tlmgr, so no name is installed externally twice and no failure retried.
C8_CacheIdempotent ==
    [][ /\ installed_packages' \cap failed_packages' = {}
        /\ \A p \in Names :
             /\ tlmgrCalls'[p] <= 1
             /\ p \in installed_packages =>
                  /\ p \in installed_packages' /\ tlmgrCalls'[p] = tlmgrCalls[p]
                  /\ lastInstall'.pkg = p =>
                       (lastInstall'.ret /\ ~lastInstall'.invoked)
             /\ p \in failed_packages =>
                  /\ p \in failed_packages' /\ tlmgrCalls'[p] = tlmgrCalls[p]
                  /\ lastInstall'.pkg = p =>
                       (~lastInstall'.ret /\ ~lastInstall'.invoked)
      ]_vars

C8_Witness ==
    /\ lastInstall = [pkg |-> "pkgA", ret |-> FALSE, invoked |-> FALSE]
    /\ "pkgA" \in failed_packages /\ tlmgrCalls["pkgA"] = 1
    /\ SymlinkPackage \in installed_packages

\* The three passes before the loop, in order, the fix being run only when
\* the content validation reported an issue.
PreStagesDone ==
    /\ Len(stages) >= 3
    /\ stages[1] = "structure" /\ stages[2] = "validate"
    /\ \/ stages[3] = "bibsyntax"
       \/ stages[3] = "fix" /\ Len(stages) >= 4 /\ stages[4] = "bibsyntax"

BibFailureReturned ==
    /\ mode = "validation" /\ outcome = "returned" /\ auto_fix
    /\ ~firstRet.ok /\ firstRet.log.kind = "log" /\ firstRet.log.bib

MaxLines == 3          \* most lines of a source file between the envelope lines
MaxRuns == 2           \* most validate_and_fix_template runs on one file

\* --------------------------------------------------------- lexical units
NL == "nl"
BeginDocument == "begin{document}"
EndDocument == "end{document}"
MakeTitle == "maketitle"
BeginAbstract == "begin{abstract}"
EndAbstract == "end{abstract}"
TitleCmds == {"title{T}", "title{U}"}
AuthorCmds == {"author{A}"}
\* Line 89: \\section\{ is matched by \section{..} only.
TopSections == {"section{S}"}
\* Line 350: \\((?:sub)*section)\{([^}]+)\}
SectionCmds == TopSections \cup {"subsubsection{Q}"}
\* Line 303: \\ref\{([^}]+)\}
RefCmds == {"ref{l}", "ref{m}"}
\* Line 270: \\bibliography\{([^}]+)\}
BibliographyCmds == {"bibliography{refs}", "bibliography{refs.bib}",
                     "bibliography{references}"}
\* Line 284: \\bibliographystyle\{
BibliographyStyles == {"bibliographystyle{plain}", "bibliographystyle{iclr2025}"}
\* Python's \s
Whitespace == {NL}

\* Lines 121-128: preamble_commands, in the order in which they are tried.
preamble_commands ==
    << {"documentclass{article}"},
       {"usepackage{a}", "usepackage{b}"},
       {"newcommand{c}"},
       {"renewcommand{c}"},
       {"input{x.sty}", "input{commands.sty}"},
       {"input{commands}", "input{commands.sty}"} >>

\* ------------------------------------------------------ string operations
Has(s, S) == \E i \in DOMAIN s : s[i] \in S

\* re.search(S, s).start(), as an index from 1; 0 when nothing matches.
First(s, S) ==
    IF Has(s, S)
    THEN CHOOSE i \in DOMAIN s : s[i] \in S /\ \A j \in 1..(i - 1) : s[j] \notin S
    ELSE 0

\* s[:n] and s[n:] of Python (n units kept, n units dropped)
Take(s, n) == SubSeq(s, 1, IF n < Len(s) THEN n ELSE Len(s))
Drop(s, n) == SubSeq(s, (IF n < Len(s) THEN n ELSE Len(s)) + 1, Len(s))

\* s[:pos] + x + s[pos:], pos being the start of the match at index i
InsertBefore(s, i, x) == Take(s, i - 1) \o x \o Drop(s, i - 1)
\* the same with pos the end of the match at index i
InsertAfter(s, i, x) == Take(s, i) \o x \o Drop(s, i)

\* s.replace(u, "")
Without(s, u) == SelectSeq(s, LAMBDA t : t # u)

\* s.replace(u, v)
Replace(s, u, v) == [i \in DOMAIN s |-> IF s[i] = u THEN v ELSE s[i]]

Count(s, S) == Cardinality({i \in DOMAIN s : s[i] \in S})

\* What one check hands back: the buffer and the issues it appended.
Checked(c, is) == [content |-> c, issues |-> is]

\* ------------------------------------------- _check_document_structure
\* Line 87: \title{..}\s*\author{..} starting at index i
TitleAuthorAt(s, i) ==
    /\ s[i] \in TitleCmds
    /\ \E j \in (i + 1)..Len(s) :
         /\ s[j] \in AuthorCmds
         /\ \A k \in (i + 1)..(j - 1) : s[k] \in Whitespace

FirstTitleAuthor(s) ==
    IF \E i \in DOMAIN s : TitleAuthorAt(s, i)
    THEN CHOOSE i \in DOMAIN s :
           TitleAuthorAt(s, i) /\ \A j \in 1..(i - 1) : ~TitleAuthorAt(s, j)
    ELSE 0

\* Lines 85-90: insertion_patterns, start of the first match of each.
insertion_patterns(s) ==
    << First(s, {MakeTitle}), FirstTitleAuthor(s),
       First(s, {BeginAbstract}), First(s, TopSections) >>

\* Lines 92-98: the first pattern that matches decides; 0 when none does.
InsertPos(s) ==
    LET m == insertion_patterns(s)
    IN  IF \E k \in 1..4 : m[k] # 0
        THEN m[CHOOSE k \in 1..4 : m[k] # 0 /\ \A h \in 1..(k - 1) : m[h] = 0]
        ELSE 0

\* Lines 80-98
AddBeginDocument(content, af) ==
    IF ~Has(content, {BeginDocument}) /\ af /\ InsertPos(content) # 0
    THEN InsertBefore(content, InsertPos(content), <<BeginDocument, NL, NL>>)
    ELSE content

\* \end{document} is appended whether or not the buffer holds one.
AddEndDocumentAlways(content, af) ==
    IF af THEN content \o <<NL, EndDocument, NL>> ELSE content

\* Lines 101-105
AddEndDocument(content, af) ==
    IF ~Has(content, {EndDocument}) /\ af
    THEN content \o <<NL, EndDocument, NL>>
    ELSE content

\* Lines 76-107
CheckDocumentStructure(content, af) ==
    LET c1 == AddBeginDocument(content, af)
    IN  Checked(AddEndDocument(c1, af),
                (IF Has(content, {BeginDocument}) THEN {} ELSE {"missing-begin"})
                \cup (IF Has(c1, {EndDocument}) THEN {} ELSE {"missing-end"}))

\* ----------------------------------------------- _check_preamble_content
\* Lines 116-118, 172-174, 229-230: the buffer is cut at the start of the
\* first \begin{document}.
Preamble(content) == Take(content, First(content, {BeginDocument}) - 1)
DocumentBody(content) == Drop(content, First(content, {BeginDocument}) - 1)

\* Line 135: index of the first unit of the line that holds unit i
LineStart(s, i) ==
    IF \E j \in 1..(i - 1) : s[j] = NL
    THEN 1 + CHOOSE j \in 1..(i - 1) :
               s[j] = NL /\ \A k \in (j + 1)..(i - 1) : s[k] # NL
    ELSE 1

\* Lines 136-138: index of the last unit of the line that holds unit i
LineEnd(s, i) ==
    IF \E j \in (i + 1)..Len(s) : s[j] = NL
    THEN (CHOOSE j \in (i + 1)..Len(s) :
               s[j] = NL /\ \A k \in (i + 1)..(j - 1) : s[k] # NL) - 1
    ELSE Len(s)

\* Lines 131-132: the matches, as <<pattern, index>>.
PreambleMatches(body) ==
    { m \in (1..Len(preamble_commands)) \X DOMAIN body :
        body[m[2]] \in preamble_commands[m[1]] }

\* Line 144: (line_start, line_end, problematic_line) of one match
FixNeeded(body, m) ==
    [start |-> LineStart(body, m[2]), end |-> LineEnd(body, m[2]),
     line |-> SubSeq(body, LineStart(body, m[2]), LineEnd(body, m[2])),
     at |-> m]

\* Order of fixes_needed as built by the two loops of lines 131-144.
BuiltBefore(a, b) ==
    a[1] < b[1] \/ (a[1] = b[1] /\ a[2] < b[2])

\* Line 149: sort(key=line_start, reverse=True); the sort is stable.
SortedReverse(f, g) ==
    f.start > g.start \/ (f.start = g.start /\ BuiltBefore(f.at, g.at))

RECURSIVE SortFixes(_)
SortFixes(F) ==
    IF F = {} THEN <<>>
    ELSE LET f == CHOOSE f \in F : \A g \in F \ {f} : SortedReverse(f, g)
         IN  <<f>> \o SortFixes(F \ {f})

fixes_needed(body) == SortFixes({ FixNeeded(body, m) : m \in PreambleMatches(body) })

\* Lines 152-154: each fix cuts [line_start, line_end) out of the body as
\* it stands after the fixes made before it.
RECURSIVE RemoveLines(_, _)
RemoveLines(body, fixes) ==
    IF fixes = <<>> THEN body
    ELSE RemoveLines(Take(body, Head(fixes).start - 1) \o Drop(body, Head(fixes).end),
                     Tail(fixes))

\* Line 158: '\n'.join(moved_commands)
RECURSIVE JoinLines(_)
JoinLines(ls) ==
    IF ls = <<>> THEN <<>>
    ELSE IF Len(ls) = 1 THEN ls[1]
    ELSE ls[1] \o <<NL>> \o JoinLines(Tail(ls))

\* Line 155
moved_commands(body) ==
    LET f == fixes_needed(body) IN [i \in DOMAIN f |-> f[i].line]

\* Lines 109-163
CheckPreambleContent(content, af) ==
    IF ~Has(content, {BeginDocument}) THEN Checked(content, {})
    ELSE LET preamble == Preamble(content)
             body == DocumentBody(content)
         IN  IF PreambleMatches(body) = {} THEN Checked(content, {})
             ELSE Checked(IF af
                          THEN preamble \o <<NL>> \o JoinLines(moved_commands(body))
                                 \o <<NL>> \o RemoveLines(body, fixes_needed(body))
                          ELSE content,
                          {"misplaced-preamble-command"})

\* ------------------------------------------ _check_title_author_placement
\* Lines 185-189: group(0) of the first match, <<>> for ""
FirstCmd(s, S) == IF Has(s, S) THEN <<s[First(s, S)]>> ELSE <<>>

\* Lines 192-195: every occurrence of the matched text is deleted
WithoutCmd(s, cmd) == IF cmd = <<>> THEN s ELSE Without(s, cmd[1])

\* Line 209: re.sub(r'\\maketitle\s*', '', preamble); skipping says that
\* the unit before was part of a match.
RECURSIVE StripMakeTitle(_, _)
StripMakeTitle(s, skipping) ==
    IF s = <<>> THEN <<>>
    ELSE IF Head(s) = MakeTitle THEN StripMakeTitle(Tail(s), TRUE)
    ELSE IF skipping /\ Head(s) \in Whitespace THEN StripMakeTitle(Tail(s), TRUE)
    ELSE <<Head(s)>> \o StripMakeTitle(Tail(s), FALSE)

\* Lines 177-200: \title and \author of the body go to the preamble.
MoveTitleAuthor(preamble, body, af) ==
    LET title_cmd == FirstCmd(body, TitleCmds)
        author_cmd == FirstCmd(body, AuthorCmds)
    IN  IF af /\ (title_cmd # <<>> \/ author_cmd # <<>>)
        THEN [preamble |-> preamble \o <<NL>> \o title_cmd \o <<NL>>
                             \o author_cmd \o <<NL>>,
              body |-> WithoutCmd(WithoutCmd(body, title_cmd), author_cmd)]
        ELSE [preamble |-> preamble, body |-> body]

\* Lines 203-218: \maketitle of the preamble goes behind \begin{document}.
MoveMakeTitle(preamble, body, af) ==
    IF af /\ Has(preamble, {MakeTitle})
    THEN [preamble |-> StripMakeTitle(preamble, FALSE),
          body |-> IF Has(body, {BeginDocument})
                   THEN InsertAfter(body, First(body, {BeginDocument}),
                                    <<NL, NL, MakeTitle, NL>>)
                   ELSE body]
    ELSE [preamble |-> preamble, body |-> body]

\* Lines 165-220
CheckTitleAuthorPlacement(content, af) ==
    IF ~Has(content, {BeginDocument}) THEN Checked(content, {})
    ELSE LET p0 == Preamble(content)
             b0 == DocumentBody(content)
             m1 == MoveTitleAuthor(p0, b0, af)
             m2 == MoveMakeTitle(m1.preamble, m1.body, af)
         IN  Checked(m2.preamble \o m2.body,
                     (IF Has(b0, TitleCmds \cup AuthorCmds)
                      THEN {"misplaced-title-author"} ELSE {})
                     \cup (IF Has(m1.preamble, {MakeTitle})
                           THEN {"misplaced-maketitle"} ELSE {}))

\* ---------------------------------------------- _check_abstract_placement
\* Line 239: \begin{abstract}.*?\end{abstract} with DOTALL, the first
\* block of the preamble as [from, to], <<0, 0>> when there is none.
AbstractMatch(preamble) ==
    LET b == First(preamble, {BeginAbstract})
    IN  IF b # 0 /\ Has(Drop(preamble, b), {EndAbstract})
        THEN <<b, b + First(Drop(preamble, b), {EndAbstract})>>
        ELSE <<0, 0>>

\* Lines 246-260: the block is inserted behind the first \maketitle of the
\* body, else behind \begin{document}; the insertion is made into content,
\* the preamble of line 244 is not used again.
CheckAbstractPlacement(content, af) ==
    IF ~Has(content, {BeginDocument}) THEN Checked(content, {})
    ELSE LET begin_doc == First(content, {BeginDocument})
             preamble == Preamble(content)
             body == DocumentBody(content)
             m == AbstractMatch(preamble)
             abstract_content == SubSeq(preamble, m[1], m[2])
             insert_at == IF Has(body, {MakeTitle})
                          THEN (begin_doc - 1) + First(body, {MakeTitle})
                          ELSE begin_doc
         IN  IF ~Has(preamble, {BeginAbstract}) THEN Checked(content, {})
             ELSE Checked(IF af /\ m # <<0, 0>>
                          THEN InsertAfter(content, insert_at,
                                           <<NL, NL>> \o abstract_content \o <<NL>>)
                          ELSE content,
                          {"misplaced-abstract"})

\* ---------------------------------------------- _check_bibliography_setup
\* Lines 275-278: the command with the .bib suffix of its argument removed
StripBibExtension(cmd) ==
    IF cmd = "bibliography{refs.bib}" THEN "bibliography{refs}" ELSE cmd

\* Lines 270-281
FixBibExtension(content, af) ==
    LET i == First(content, BibliographyCmds)
    IN  IF af /\ i # 0
        THEN Replace(content, content[i], StripBibExtension(content[i]))
        ELSE content

\* Lines 284-295
AddBibliographyStyle(content, bib_command, af) ==
    IF af /\ ~Has(content, BibliographyStyles)
    THEN IF bib_command # 0
         THEN InsertBefore(content, bib_command, <<"bibliographystyle{iclr2025}", NL>>)
         ELSE content \o <<NL, "bibliographystyle{iclr2025}", NL,
                           "bibliography{references}", NL>>
    ELSE content

\* Lines 266-297
CheckBibliographySetup(content, af) ==
    LET bib_command == First(content, BibliographyCmds)
        c1 == FixBibExtension(content, af)
    IN  Checked(AddBibliographyStyle(c1, bib_command, af),
                (IF bib_command # 0
                    /\ StripBibExtension(content[bib_command]) # content[bib_command]
                 THEN {"bad-bibliography-extension"} ELSE {})
                \cup (IF Has(c1, BibliographyStyles) THEN {}
                      ELSE {"missing-bibliography-style"}))

\* ----------------------------------------------- _check_figure_references
BeginFigure == "begin{figure}"
EndFigure == "end{figure}"
CaptionCmds == {"caption{c}"}
\* Lines 320-328: the label made for figure i (from its caption, else
\* from its number)
FigureLabel(block, i) ==
    IF Has(block, CaptionCmds) THEN "label{fig:c}"
    ELSE <<"label{fig:figure_1}", "label{fig:figure_2}", "label{fig:figure_3}",
           "label{fig:figure_4}", "label{fig:figure_5}", "label{fig:figure_6}">>[i]
FigureLabels == {"label{fig:c}"} \cup { FigureLabel(<<>>, i) : i \in 1..6 }

\* Lines 303-309: the label a \ref needs
LabelOf(ref) == IF ref = "ref{l}" THEN "label{l}" ELSE "label{m}"
\* Lines 381-382: the label made for a section from its title
SectionLabel(cmd) == IF cmd = "section{S}" THEN "label{sec:s}" ELSE "label{sec:q}"
\* Lines 306, 317, 376: \\label\{
AnyLabel == {"label{l}", "label{m}", "label{sec:s}", "label{sec:q}"} \cup FigureLabels

undefined_refs(content) ==
    { content[i] : i \in { j \in DOMAIN content : content[j] \in RefCmds
                                /\ ~Has(content, {LabelOf(content[j])}) } }

\* Line 315: \begin{figure}.*?\end{figure} with DOTALL, findall, from unit
\* `from' on
RECURSIVE figure_blocks(_, _)
figure_blocks(s, from) ==
    LET rest == Drop(s, from - 1)
        b == First(rest, {BeginFigure})
        e == IF b = 0 THEN 0 ELSE First(Drop(rest, b), {EndFigure})
    IN  IF b = 0 \/ e = 0 THEN <<>>
        ELSE <<SubSeq(rest, b, b + e)>> \o figure_blocks(s, from + b + e)

\* s.startswith(old)
StartsWith(s, old) == Len(s) >= Len(old) /\ SubSeq(s, 1, Len(old)) = old

\* s.replace(old, new) for a text old of one unit or more
RECURSIVE ReplaceText(_, _, _)
ReplaceText(s, old, new) ==
    IF s = <<>> THEN <<>>
    ELSE IF StartsWith(s, old) THEN new \o ReplaceText(Drop(s, Len(old)), old, new)
    ELSE <<Head(s)>> \o ReplaceText(Tail(s), old, new)

\* Lines 331-339: the block with its label
new_fig_block(block, i) ==
    IF Has(block, CaptionCmds)
    THEN InsertAfter(block, First(block, CaptionCmds), <<NL, FigureLabel(block, i)>>)
    ELSE ReplaceText(block, <<EndFigure>>, <<FigureLabel(block, i), NL, EndFigure>>)

\* Lines 316-342
RECURSIVE LabelFigures(_, _, _)
LabelFigures(content, blocks, i) ==
    IF i > Len(blocks) THEN content
    ELSE LabelFigures(IF Has(blocks[i], AnyLabel) THEN content
                      ELSE ReplaceText(content, blocks[i], new_fig_block(blocks[i], i)),
                      blocks, i + 1)

\* Lines 299-344
CheckFigureReferences(content, af) ==
    LET blocks == figure_blocks(content, 1)
    IN  Checked(IF af THEN LabelFigures(content, blocks, 1) ELSE content,
                (IF undefined_refs(content) # {} THEN {"undefined-reference"} ELSE {})
                \cup (IF \E i \in DOMAIN blocks : ~Has(blocks[i], AnyLabel)
                      THEN {"missing-figure-label"} ELSE {}))

\* ------------------------------------------------ _check_section_structure
\* Line 375: content[end:end+200], the look-ahead for a label.  It is
\* counted in units here, and a unit is one character or more.
LabelLookahead == 200

\* Line 357: section_levels
section_levels(cmd) == IF cmd \in TopSections THEN 1 ELSE 3

\* Line 350: findall, the section commands in source order
sections(content) == SelectSeq(content, LAMBDA t : t \in SectionCmds)

\* Lines 358-367: some section is more than one level below the one before
HierarchySkip(secs) ==
    \E i \in DOMAIN secs :
        section_levels(secs[i]) > (IF i = 1 THEN 0 ELSE section_levels(secs[i - 1])) + 1

\* Lines 372-376: the first occurrence of the command has no \label within
\* the look-ahead
MissingLabel(content, cmd) ==
    /\ Has(content, {cmd})
    /\ ~Has(Take(Drop(content, First(content, {cmd})), LabelLookahead), AnyLabel)

\* Lines 370-389
RECURSIVE LabelSections(_, _, _)
LabelSections(content, secs, i) ==
    IF i > Len(secs) THEN content
    ELSE LabelSections(IF MissingLabel(content, secs[i])
                       THEN InsertAfter(content, First(content, {secs[i]}),
                                        <<NL, SectionLabel(secs[i])>>)
                       ELSE content,
                       secs, i + 1)

\* Lines 346-391
CheckSectionStructure(content, af) ==
    LET secs == sections(content)
    IN  IF secs = <<>> THEN Checked(content, {"no-sections"})
        ELSE Checked(IF af THEN LabelSections(content, secs, 1) ELSE content,
                     (IF HierarchySkip(secs) THEN {"hierarchy-skip"} ELSE {})
                     \cup (IF \E i \in DOMAIN secs : MissingLabel(content, secs[i])
                           THEN {"missing-section-label"} ELSE {}))

\* ------------------------------------------- validate_and_fix_template
\* Lines 47-53: one check applied to the buffer the check before returned;
\* rs holds what the checks made so far handed back.
Then(rs, Check(_, _), af) ==
    { Append(r, Check(r[Len(r)].content, af)) : r \in rs }

\* Lines 47-53: the seven checks in their order; the result holds what each
\* check handed back.
RunChecks(content, af) ==
    LET r1 == { <<CheckDocumentStructure(c, af)>> : c \in {content} }
        r2 == Then(r1, CheckPreambleContent, af)
        r3 == Then(r2, CheckTitleAuthorPlacement, af)
        r4 == Then(r3, CheckAbstractPlacement, af)
        r5 == Then(r4, CheckBibliographySetup, af)
        r6 == Then(r5, CheckFigureReferences, af)
        r7 == Then(r6, CheckSectionStructure, af)
    IN  CHOOSE r \in r7 : TRUE

\* The buffer the last check returned.
FixedContent(content, af) == RunChecks(content, af)[7].content

\* Lines 19-74: one run of validate_and_fix_template(tex_file, auto_fix).
TemplateRun(af) ==
    /\ runs' = runs + 1
    /\ fix' = af
    /\ original_content' = IF Readable(tex) THEN tex ELSE NoFile
    /\ IF ~Readable(tex)
       THEN \* lines 30-31 and 41-42: {"success": False, "error": ...}
            /\ checked' = <<>>
            /\ backup_created' = FALSE
            /\ UNCHANGED <<tex, structure_backup, issues_found>>
       ELSE \E r \in {RunChecks(tex, af)} : LET fixed == r[7].content IN
                /\ checked' = [k \in 1..7 |-> r[k].content]
                /\ issues_found' = UNION { r[k].issues : k \in 1..7 }
                /\ backup_created' = (af /\ fixed # tex)
                /\ IF af /\ fixed # tex
                   THEN \* lines 58-63: copy2 to the sidecar, then the write
                        /\ structure_backup' = tex
                        /\ tex' = fixed
                   ELSE UNCHANGED <<tex, structure_backup>>

\* One call of validate_and_fix_template on the source file.
ValidateAndFixTemplate(af) ==
    /\ runs < MaxRuns
    /\ TemplateRun(af)
    /\ UNCHANGED repairVars
    /\ UNCHANGED managerVars

\* Lines the source files are written from, \begin{document} and
\* \end{document} apart.
SourceLines ==
    { <<"usepackage{a}">>,
      <<"newcommand{c}">>,
      <<"usepackage{a}", "usepackage{b}", "text">>,
      <<"title{T}", "author{A}">>,
      <<MakeTitle>>,
      <<BeginAbstract, "text", EndAbstract>>,
      <<"section{S}", "label{l}">>,
      <<"section{S}">>,
      <<"bibliographystyle{plain}">>,
      <<"bibliography{refs.bib}">>,
      <<BeginFigure, "caption{c}", EndFigure>>,
      <<"text", "ref{l}">> }

\* The text of a file of the given lines, each ended by a line break.
RECURSIVE FileOf(_)
FileOf(ls) == IF ls = <<>> THEN <<>> ELSE Head(ls) \o <<NL>> \o FileOf(Tail(ls))

\* The lines ls with a \begin{document} line in front of line b (none for
\* b = 0) and, for e, an \end{document} line behind them.
WithEnvelope(ls, b, e) ==
    (IF b = 0 THEN ls
     ELSE SubSeq(ls, 1, b - 1) \o <<<<BeginDocument>>>> \o SubSeq(ls, b, Len(ls)))
    \o (IF e THEN <<<<EndDocument>>>> ELSE <<>>)

\* The source files: up to MaxLines lines in any order, with or without the
\* two lines of the envelope.
SourceFiles ==
    {NoFile} \cup
    UNION { { FileOf(WithEnvelope(ls, b, e)) : b \in 0..(Len(ls) + 1), e \in BOOLEAN }
            : ls \in UNION { [1..n -> SourceLines] : n \in 0..MaxLines } }

\* A validator is constructed (lines 15-17) next to some source file.
TemplateInit == ManagerInit /\ tex \in SourceFiles /\ NoTemplateRun
                /\ EmptyDirectory /\ NoRepairRun

TemplateNext == \E af \in BOOLEAN : ValidateAndFixTemplate(af)

TemplateSpec == TemplateInit /\ [][TemplateNext]_vars

\* ------------------------------------------------------------- claims
\* A run of validate_and_fix_template has read the file.
Ran == runs >= 1 /\ original_content # NoFile

\* The buffer the last run produced.
Produced == checked[7]

\* Content that belongs to the body only.
BodyOnly == {MakeTitle, BeginAbstract, EndAbstract} \cup SectionCmds

\* C11 (as stated): for any source buffer that contains no \begin{document},
\* a run with auto_fix produces a buffer with exactly one \begin{document},
\* and that marker precedes \maketitle, the abstract block and every section
\* command.
C11_BeginDocumentRestored ==
    (Ran /\ fix /\ ~Has(original_content, {BeginDocument}))
    => /\ Count(Produced, {BeginDocument}) = 1
       /\ \A i \in DOMAIN Produced :
            Produced[i] \in BodyOnly => First(Produced, {BeginDocument}) < i

\* What _check_bibliography_setup appends to a buffer.
AppendedBibliography ==
    {NL, "bibliographystyle{iclr2025}", "bibliography{references}"}

\* The \end{document} of s is at the end of s or has only line breaks and
\* the appended bibliography commands behind it.
NearEnd(s) ==
    \A i \in DOMAIN s : First(s, {EndDocument}) < i => s[i] \in AppendedBibliography

\* C12 (as stated): for any source buffer that contains no \end{document},
\* a run with auto_fix produces a buffer with exactly one \end{document},
\* at or near the end of the buffer, and none of the checks that follow the
\* envelope check removes or duplicates it.
C12_EndDocumentRestored ==
    (Ran /\ fix /\ ~Has(original_content, {EndDocument}))
    => /\ \A k \in 1..7 : Count(checked[k], {EndDocument}) = 1
       /\ NearEnd(Produced)

\* C13: when a run of validate_and_fix_template on a file reported zero
\* issues, the next run on that file reports zero issues again, leaves the
\* buffer and the file as they are, and creates no backup.
C13_ValidBufferUntouched ==
    [][ (Ran /\ issues_found = {} /\ runs' = runs + 1)
        => ( /\ issues_found' = {}
             /\ checked'[7] = tex
             /\ tex' = tex
             /\ structure_backup' = structure_backup
             /\ backup_created' = FALSE ) ]_vars

\* Two runs with auto_fix were made on a file without issues.
C13_Witness ==
    /\ runs = 2 /\ fix /\ issues_found = {} /\ original_content = tex
    /\ ~backup_created /\ structure_backup = NoFile /\ tex # NoFile

\* The buffer the envelope check of the last run handed on, which has a
\* \begin{document}.
Enveloped == checked[1]

\* The first \title{..} / \author{..} of the body after the envelope check.
BodyTitle == FirstCmd(DocumentBody(Enveloped), TitleCmds)
BodyAuthor == FirstCmd(DocumentBody(Enveloped), AuthorCmds)

\* C14 (as stated): when the body holds \title{T} and \author{A} and no
\* \maketitle (the body being what follows \begin{document}, also a
\* \begin{document} inserted by the envelope check of the same run), then
\* after a run with auto_fix both declarations stand before
\* \begin{document} and neither stands behind it.
C14_TitleAuthorInPreamble ==
    ( /\ Ran /\ fix /\ Has(Enveloped, {BeginDocument})
      /\ BodyTitle # <<>> /\ BodyAuthor # <<>>
      /\ ~Has(DocumentBody(Enveloped), {MakeTitle}) )
    => /\ Has(tex, {BeginDocument})
       /\ Has(Preamble(tex), {BodyTitle[1]})
       /\ Has(Preamble(tex), {BodyAuthor[1]})
       /\ ~Has(DocumentBody(tex), {BodyTitle[1], BodyAuthor[1]})

\* Unit j of s follows unit i with nothing but white space between them.
RightBehind(s, i, j) == i < j /\ \A k \in (i + 1)..(j - 1) : s[k] \in Whitespace

\* C15 (as stated): when an abstract block lies in the preamble, then after
\* a run with auto_fix no abstract block stands before \begin{document} and
\* exactly one stands in the body, right behind \maketitle if the body has
\* one and right behind \begin{document} otherwise.
C15_AbstractInBody ==
    ( /\ Ran /\ fix /\ Has(original_content, {BeginDocument})
      /\ AbstractMatch(Preamble(original_content)) # <<0, 0>> )
    => LET body == DocumentBody(tex)
           anchor == IF Has(body, {MakeTitle}) THEN First(body, {MakeTitle}) ELSE 1
       IN  /\ ~Has(Preamble(tex), {BeginAbstract})
           /\ Count(body, {BeginAbstract}) = 1
           /\ RightBehind(body, anchor, First(body, {BeginAbstract}))

\* s.split('\n')
RECURSIVE SplitLines(_)
SplitLines(s) ==
    IF ~Has(s, {NL}) THEN <<s>>
    ELSE <<Take(s, First(s, {NL}) - 1)>> \o SplitLines(Drop(s, First(s, {NL})))

\* The lines that hold a preamble-only command in the body the preamble
\* check of the last run received.
MovedLines == { FixNeeded(DocumentBody(Enveloped), m) :
                  m \in PreambleMatches(DocumentBody(Enveloped)) }

\* Index of the first line of ls that reads l, 0 if there is none.
LineIndex(ls, l) == First(ls, {l})

\* C16 (as stated): when the preamble check moves several lines out of the
\* body, the moved lines stand in the preamble in the relative order in
\* which they stood in the body.
C16_MovedLinesKeepOrder ==
    (Ran /\ fix /\ Has(Enveloped, {BeginDocument}))
    => LET ls == SplitLines(Preamble(checked[2]))
       IN  \A f, g \in MovedLines :
             (f.start < g.start /\ f.line # g.line)
             => ( /\ LineIndex(ls, f.line) # 0
                  /\ LineIndex(ls, g.line) # 0
                  /\ LineIndex(ls, f.line) < LineIndex(ls, g.line) )


\* ------------------------------------------------- validate_latex_file
\* latex_package_manager.py, lines 384-534.  The checks read the source
\* with errors='ignore'; a directory holds at most the file refs.bib.
MaxContentLines == 2   \* most content lines of a repaired source file

\* Lines 404-407: the commands the two figure_patterns match.
GraphicsCmds == {"includegraphics{fig}", "includegraphics[w]{plot.png}",
                 "includegraphics*{fig.pdf}"}

\* Group 1 of the figure patterns: the path as it is written.
GraphicsPath(cmd) ==
    CASE cmd = "includegraphics{fig}" -> "fig"
      [] cmd = "includegraphics[w]{plot.png}" -> "plot.png"
      [] OTHER -> "fig.pdf"

\* Lines 413-415: a path without an image extension gets ".pdf".
figure_file(cmd) ==
    LET path == GraphicsPath(cmd)
    IN  IF path \in {"plot.png", "fig.pdf"} THEN path ELSE path \o ".pdf"

\* The units of a buffer that belong to the set S.
Units(content, S) == { content[i] : i \in DOMAIN content } \cap S

\* Lines 409-425: the figure files found in none of the three locations.
missing_figures(content) ==
    { figure_file(cmd) : cmd \in Units(content, GraphicsCmds) } \ figures

\* Lines 453-455: \ref, \eqref and \pageref commands, and the label named.
LabelRefCmds == RefCmds \cup {"eqref{l}", "eqref{m}"}
RefLabel(cmd) == IF cmd \in {"ref{l}", "eqref{l}"} THEN "l" ELSE "m"

\* Line 457: the name a \label command defines.
LabelName(cmd) ==
    CASE cmd = "label{l}" -> "l" [] cmd = "label{m}" -> "m" [] OTHER -> cmd

\* Lines 453-461.
undefined_labels(content) ==
    { RefLabel(cmd) : cmd \in Units(content, LabelRefCmds) }
    \ { LabelName(cmd) : cmd \in Units(content, AnyLabel) }

\* Lines 465-471: the five citation commands, and the keys of one (476).
CiteCmds == {"cite{k1}", "cite{k1,k2}", "citealp{k2}"}
CiteKeys(cmd) ==
    CASE cmd = "cite{k1}" -> {"k1"}
      [] cmd = "cite{k1,k2}" -> {"k1", "k2"}
      [] OTHER -> {"k2"}

\* Lines 464-477.
cite_refs(content) == UNION { CiteKeys(cmd) : cmd \in Units(content, CiteCmds) }

\* Lines 489, 499, 513, 521: the keys @[^{]*\{([^,]+), finds in the text of
\* a bibliography (read with errors='ignore').
EntryCmds == {"@article{k1,", "@article{k2,"}
EntryKey(cmd) == IF cmd = "@article{k1," THEN "k1" ELSE "k2"
Entries(text) == { EntryKey(cmd) : cmd \in Units(Decode(text), EntryCmds) }

\* Line 485: the file a \bibliography command names, ".bib" appended.
bib_path(cmd) ==
    CASE cmd = "bibliography{refs}" -> "refs.bib"
      [] cmd = "bibliography{refs.bib}" -> "refs.bib.bib"
      [] OTHER -> "references.bib"

\* Lines 484-489: the keys of the declared files that exist.
DeclaredDefs(content) ==
    IF bibfile # NoFile
       /\ \E cmd \in Units(content, BibliographyCmds) : bib_path(cmd) = "refs.bib"
    THEN Entries(bibfile) ELSE {}

\* os.path.exists of a directory part: the empty path of a bare file name
\* does not exist.
DirExists(dir) == dir # ""

\* os.path.dirname of the directory part.
ParentOf(dir) == IF dir = "/run/latex" THEN "/run" ELSE ""

\* Lines 492-501: every .bib of the working directory.
DirectoryDefs == IF bibfile # NoFile THEN Entries(bibfile) ELSE {}

\* Lines 504-515: every .bib of the parent directory, if that exists.
ParentDefs ==
    IF DirExists(ParentOf(working_dir)) /\ parent_bib # NoFile
    THEN Entries(parent_bib) ELSE {}

\* Lines 518-521: the first inline bibliography of the source.
BeginFileContents == "begin{filecontents}{refs.bib}"
EndFileContents == "end{filecontents}"
InlineDefs(content) ==
    LET b == First(content, {BeginFileContents})
        rest == Drop(content, b)
        e == First(rest, {EndFileContents})
    IN  IF b = 0 \/ e = 0 THEN {}
        ELSE { EntryKey(cmd) : cmd \in Units(Take(rest, e - 1), EntryCmds) }

\* Lines 492-493: os.listdir(working_dir) is reached when the declared
\* files gave no key; it fails for the empty path of a bare file name.
ListingFails(content) == DeclaredDefs(content) = {} /\ ~DirExists(working_dir)

\* Lines 481-521: the keys found, each place looked at only if the places
\* before it gave none; the inline bibliography always.
cite_defs(content) ==
    LET declared == DeclaredDefs(content)
        listed == IF declared = {} THEN DirectoryDefs ELSE declared
        found == IF listed = {} THEN ParentDefs ELSE listed
    IN  found \cup InlineDefs(content)

NotFoundWarning == "LaTeX file not found"
NoBibliographyWarning == "Citations found but no bibliography files detected"

\* Lines 524-532: undefined keys only against a bibliography that was found.
CitationReport(defs, refs) ==
    [undefined |-> IF defs # {} THEN refs \ defs ELSE {},
     warnings |-> IF defs = {} /\ refs # {} THEN {NoBibliographyWarning} ELSE {}]

\* Lines 384-534: validate_latex_file(tex_file); raised when the call ends
\* in the exception of os.listdir.
ValidateLatexFile(file) ==
    IF file = NoFile
    THEN [raised |-> FALSE,
          issues |-> [NoIssues EXCEPT !.warnings = {NotFoundWarning}]]
    ELSE LET content == Decode(file)
             cr == CitationReport(cite_defs(content), cite_refs(content))
         IN  IF ListingFails(content)
             THEN [raised |-> TRUE, issues |-> NoIssues]
             ELSE [raised |-> FALSE,
                   issues |-> [missing_figures |-> missing_figures(content),
                               undefined_labels |-> undefined_labels(content),
                               undefined_citations |-> cr.undefined,
                               warnings |-> cr.warnings]]

\* Line 849: total_issues > 0.
total_issues(is) ==
    Cardinality(is.missing_figures) + Cardinality(is.undefined_labels)
    + Cardinality(is.undefined_citations) + Cardinality(is.warnings)

\* ---------------------------------------------------- fix_latex_issues
\* Line 573: the placeholder box naming the file.
Placeholder(figure) == "fbox{Missing Figure: " \o figure \o "}"

\* Lines 561-576: a command is replaced when the path written in it is,
\* letter for letter, a reported name (re.escape(figure)).
FixFigures(content, missing) ==
    [i \in DOMAIN content |->
        IF content[i] \in GraphicsCmds /\ GraphicsPath(content[i]) \in missing
        THEN Placeholder(GraphicsPath(content[i])) ELSE content[i]]

\* Every reference replaced once a label is reported, defined or not.
FixLabelsEvery(content, undefined) ==
    [i \in DOMAIN content |->
        IF content[i] \in LabelRefCmds /\ undefined # {}
        THEN "[REF:" \o RefLabel(content[i]) \o "]" ELSE content[i]]

\* Lines 579-592.
FixLabels(content, undefined) ==
    [i \in DOMAIN content |->
        IF content[i] \in LabelRefCmds /\ RefLabel(content[i]) \in undefined
        THEN "[REF:" \o RefLabel(content[i]) \o "]" ELSE content[i]]

\* Lines 599-614: a .bib in the working or the parent directory, each
\* looked at only if os.path.exists of it holds, or the words
\* "filecontents" and ".bib" anywhere in the source.
bib_files_exist(content) ==
    \/ DirExists(working_dir) /\ bibfile # NoFile
    \/ DirExists(ParentOf(working_dir)) /\ parent_bib # NoFile
    \/ /\ Has(content, {BeginFileContents, EndFileContents})
       /\ Has(content, {BeginFileContents, "bibliography{refs.bib}"})

\* Lines 616-629: \cite, \citep and \citet of exactly one reported key.
FixCitations(content, undefined) ==
    IF undefined = {} \/ bib_files_exist(content) THEN content
    ELSE [i \in DOMAIN content |->
            IF content[i] = "cite{k1}" /\ "k1" \in undefined
            THEN "[k1]" ELSE content[i]]

\* Lines 555-632: the buffer read with errors='ignore' and the buffer after
\* the three repairs; fixed_anything holds exactly if they differ, every
\* replacement being another text than its match.
FixLatexIssues(file, is) ==
    LET original == Decode(file)
        fixed == FixCitations(FixLabels(FixFigures(original, is.missing_figures),
                                        is.undefined_labels),
                              is.undefined_citations)
    IN  [original_content |-> original, content |-> fixed,
         fixed_anything |-> fixed # original]

\* ---------------------------------------- validate_and_fix_bibtex_files
\* Lines 674-705: the four escapes of a .bbl file.
FixBbl(content) ==
    [i \in DOMAIN content |->
        IF content[i] = "A & B" THEN "A \\& B" ELSE content[i]]

\* The text of a .bib field: its opener (a name, "=" and "{"), the
\* characters of its value one unit each, and its closing brace.
FieldOpeners == {"title={"}
FieldEnd == "}"
Ampersand == "&"
Backslash == "\\"
Field(value) == <<"title={">> \o value \o <<FieldEnd>>

\* The greatest number of a non-empty set of numbers.
Last(S) == CHOOSE j \in S : \A k \in S : k <= j

\* Lines 738-743: re.sub of (\s*=\s*\{[^}]*[^\\])&([^}]*\}).  The greedy
\* [^}]* takes, in each field, the last ampersand whose predecessor is a
\* character of the value other than a backslash; the match runs to the
\* closing brace, so one ampersand per field is escaped.
RECURSIVE field_ampersand(_)
field_ampersand(content) ==
    LET i == First(content, FieldOpeners)
        rest == Drop(content, i)
        c == First(rest, {FieldEnd})
        value == Take(rest, c - 1)
        js == { j \in 2..Len(value) :
                  value[j] = Ampersand /\ value[j - 1] # Backslash }
    IN  IF i = 0 \/ c = 0 THEN content
        ELSE Take(content, i)
             \o (IF js = {} THEN value
                 ELSE InsertBefore(value, Last(js), <<Backslash>>))
             \o <<FieldEnd>> \o field_ampersand(Drop(rest, c))

\* Lines 763-768: re.sub of ([^\\]&)([^&\s]) by \1\\&\2, matches taken from
\* the left without overlap: the ampersand stays and \& is put behind it.
RECURSIVE general_ampersand(_)
general_ampersand(content) ==
    IF Len(content) < 3 THEN content
    ELSE IF /\ content[1] # Backslash
            /\ content[2] = Ampersand
            /\ content[3] \notin {Ampersand, " ", NL}
    THEN <<content[1], Ampersand, Backslash, Ampersand, content[3]>>
         \o general_ampersand(Drop(content, 3))
    ELSE <<content[1]>> \o general_ampersand(Tail(content))

\* Lines 736-768: the escapes of a .bib file (the HTML entities of lines
\* 746-759 cannot be written with the units of a value).
FixBib(content) == general_ampersand(field_ampersand(content))

\* Lines 668-721 and 730-784 for one file and its escaped text: the content
\* written, the sidecar written and whether issues_found got an entry (a pattern found, or the
\* error of a strict read that failed).
SyntaxPass(file, old_backup, fixed) ==
    IF file = NoFile
    THEN [file |-> file, backup |-> old_backup, issue |-> FALSE]
    ELSE IF ~Decodable(file)
    THEN [file |-> file, backup |-> old_backup, issue |-> TRUE]
    ELSE IF fixed # file
    THEN [file |-> fixed, backup |-> file, issue |-> TRUE]
    ELSE [file |-> file, backup |-> old_backup, issue |-> FALSE]

\* Lines 647-786 with auto_fix=True, as the wrapper calls it.
ValidateAndFixBibtexFiles ==
    \E b \in {SyntaxPass(bblfile, syntax_backup.bbl, FixBbl(bblfile))},
       s \in {SyntaxPass(bibfile, syntax_backup.bib, FixBib(bibfile))} :
        /\ bblfile' = b.file
        /\ bibfile' = s.file
        /\ syntax_backup' = [bib |-> s.backup, bbl |-> b.backup]

\* --------------------------------------- compile_latex_with_validation
\* Lines 816-923 over the contents of the files; the attempt loop of step 3
\* is one step here, which reads the source and lets bibtex write the .bbl.
fileVars == <<bibfile, bblfile, syntax_backup>>

\* Line 816: the call, for a path with the directory part dir.
RepairCall(dir, af) ==
    /\ rpc = "idle"
    /\ called = NotCalled
    /\ working_dir' = dir
    /\ called' = [auto_fix |-> af, tex |-> tex, bib |-> bibfile, bbl |-> bblfile]
    /\ rpc' = "structure"
    /\ UNCHANGED <<tvVars, figures, parent_bib, fileVars, backup, report, compiled>>

\* Lines 821-843: step 0, always with auto_fix=True.
R_Structure ==
    /\ rpc = "structure"
    /\ IF TEMPLATE_VALIDATOR_AVAILABLE /\ called.auto_fix
       THEN TemplateRun(TRUE) ELSE UNCHANGED tvVars
    /\ rpc' = "validate"
    /\ UNCHANGED <<dirVars, fileVars, backup, report, called, compiled>>

\* Line 846: step 1; the exception of validate_latex_file ends the call.
R_Validate ==
    /\ rpc = "validate"
    /\ \E r \in {ValidateLatexFile(tex)} :
         IF r.raised
         THEN rpc' = "raised" /\ report' = report
         ELSE rpc' = "fix" /\ report' = r.issues
    /\ UNCHANGED <<tvVars, dirVars, fileVars, backup, called, compiled>>

\* Lines 873, 886, 916: a repair pass is run only with auto_fix.
Repairs(af) == af

\* Lines 851-882: step 2, fix_latex_issues if there are issues; lines
\* 635-642: the decoded text to the sidecar, then the write.
R_Fix ==
    /\ rpc = "fix"
    /\ \E f \in {FixLatexIssues(tex, report)} :
         IF total_issues(report) > 0 /\ Repairs(called.auto_fix) /\ f.fixed_anything
         THEN backup' = f.original_content /\ tex' = f.content
         ELSE UNCHANGED <<tex, backup>>
    /\ rpc' = "bib"
    /\ UNCHANGED <<structure_backup, issues_found, backup_created, fix,
                   original_content, checked, runs,
                   dirVars, fileVars, report, called, compiled>>

\* Lines 885-902: step 2.5.
R_Bib ==
    /\ rpc = "bib"
    /\ IF Repairs(called.auto_fix)
       THEN ValidateAndFixBibtexFiles ELSE UNCHANGED fileVars
    /\ rpc' = "compile"
    /\ UNCHANGED <<tvVars, dirVars, backup, report, called, compiled>>

\* What bibtex may leave in the directory.
BblFiles == { <<"bibitem{k1}", NL, "A & B", NL>>,
              <<"bibitem{k1}", NL, "A \\& B", NL>> }

LoopResults == {"success", "failure", "bibtex failure"}

\* Lines 905-916: step 3 and the tests of step 4.
R_Compile ==
    /\ rpc = "compile"
    /\ compiled' = Append(compiled, tex)
    /\ \E b \in BblFiles \cup {bblfile} : bblfile' = b
    /\ \E o \in LoopResults :
         rpc' = IF o = "bibtex failure" /\ Repairs(called.auto_fix)
                THEN "post" ELSE "returned"
    /\ UNCHANGED <<tvVars, dirVars, bibfile, syntax_backup, backup, report, called>>

\* Line 918: the pass of step 4; line 919: the retry if it reported.
R_Post ==
    /\ rpc = "post"
    /\ ValidateAndFixBibtexFiles
    /\ rpc' = IF SyntaxPass(bblfile, syntax_backup.bbl, FixBbl(bblfile)).issue
                 \/ SyntaxPass(bibfile, syntax_backup.bib, FixBib(bibfile)).issue
              THEN "recompile" ELSE "returned"
    /\ UNCHANGED <<tvVars, dirVars, backup, report, called, compiled>>

\* Line 921: the single retry of the attempt loop.
R_Recompile ==
    /\ rpc = "recompile"
    /\ compiled' = Append(compiled, tex)
    /\ \E b \in BblFiles \cup {bblfile} : bblfile' = b
    /\ rpc' = "returned"
    /\ UNCHANGED <<tvVars, dirVars, bibfile, syntax_backup, backup, report, called>>

\* ------------------------------------------------------ the directories
\* Lines of the body of a source file that the repair passes look at.
ContentLines ==
    { <<"includegraphics{fig}">>,
      <<"includegraphics[w]{plot.png}">>,
      <<"includegraphics*{fig.pdf}">>,
      <<"ref{l}", "eqref{l}">>,
      <<"eqref{m}", "label{m}">>,
      <<"cite{k1}">>,
      <<"cite{k1,k2}", "citealp{k2}">>,
      <<"text", Undecodable>>,
      <<BeginFileContents, "@article{k1,", EndFileContents>> }

\* A source file of the given content lines: complete, or without its
\* bibliography commands and its \end{document}.
Document(ls, complete) ==
    FileOf(<<<<BeginDocument>>, <<"section{S}", "label{sec:s}">>>> \o ls
           \o (IF complete
               THEN <<<<"bibliographystyle{plain}">>, <<"bibliography{refs}">>,
                      <<EndDocument>>>>
               ELSE <<>>))

Documents ==
    { Document(ls, complete) :
        ls \in UNION { [1..n -> ContentLines] : n \in 0..MaxContentLines },
        complete \in BOOLEAN }

FigureFiles == {"fig.pdf", "plot.png"}

BibFiles ==
    { <<"@article{k1,", NL>> \o Field(<<"A">>) \o <<NL>>,
      <<"@article{k1,", NL>> \o Field(<<"A", " ", Ampersand, " ", "B">>) \o <<NL>>,
      <<"@article{k2,", NL, Undecodable>>
          \o Field(<<"A", " ", Ampersand, " ", "B">>) \o <<NL>> }

WorkingDirs == {"", "latex", "/run/latex"}

RepairInit ==
    /\ ManagerInit
    /\ tex \in Documents
    /\ NoTemplateRun
    /\ working_dir = "/run/latex"
    /\ figures \in SUBSET FigureFiles
    /\ bibfile \in BibFiles \cup {NoFile}
    /\ bblfile \in BblFiles \cup {NoFile}
    /\ parent_bib \in {NoFile, <<"@article{k2,", NL>> \o Field(<<"A">>) \o <<NL>>}
    /\ NoRepairRun

RepairNext ==
    \/ (\E dir \in WorkingDirs, af \in BOOLEAN : RepairCall(dir, af)) /\ UNCHANGED managerVars
    \/ R_Structure /\ UNCHANGED managerVars
    \/ R_Validate /\ UNCHANGED managerVars
    \/ R_Fix /\ UNCHANGED managerVars
    \/ R_Bib /\ UNCHANGED managerVars
    \/ R_Compile /\ UNCHANGED managerVars
    \/ R_Post /\ UNCHANGED managerVars
    \/ R_Recompile /\ UNCHANGED managerVars

RepairSpec == RepairInit /\ [][RepairNext]_vars

\* ------------------------------------------------- claims on the repairs
\* The step overwrote the file only after putting what the file held into
\* the sidecar, and wrote neither if the file keeps its content.
Backed(file, written, sidecar, sidecar_written) ==
    IF written # file THEN sidecar_written = file ELSE sidecar_written = sidecar

\* C17 (as stated): every repair pass that overwrites a file (the structure
\* fix and the content fix of the source, the syntax fix of the .bib and of
\* the .bbl) leaves in its sidecar (.structure_backup, .backup,
\* .syntax_backup) the content the file had immediately before the
\* overwrite, and a pass that changes nothing writes neither the file nor a
\* sidecar.
C17_BackupBeforeOverwrite ==
    [][ /\ rpc = "structure"
           => Backed(tex, tex', structure_backup, structure_backup')
        /\ rpc = "fix" => Backed(tex, tex', backup, backup')
        /\ rpc \in {"bib", "post"}
           => /\ Backed(bibfile, bibfile', syntax_backup.bib, syntax_backup'.bib)
              /\ Backed(bblfile, bblfile', syntax_backup.bbl, syntax_backup'.bbl)
      ]_vars

\* C18 (as stated): with auto_fix disabled compile_latex_with_validation
\* repairs nothing: the source, the .bib and the .bbl keep the content the
\* call found (the .bbl until bibtex is run by the attempt loop), no sidecar
\* is written, and the call ends with the attempt loop run once, on the
\* unmodified source.
C18_NoRepairWithoutAutoFix ==
    (rpc # "idle" /\ ~called.auto_fix)
    => /\ tex = called.tex
       /\ bibfile = called.bib
       /\ compiled = <<>> => bblfile = called.bbl
       /\ structure_backup = NoFile
       /\ backup = NoFile
       /\ syntax_backup = [bib |-> NoFile, bbl |-> NoFile]
       /\ rpc \in {"returned", "raised"} => compiled = <<called.tex>>

\* No key is defined in a .bib of the working directory, in a .bib of the
\* parent directory or in an inline bibliography of the source.
NoDefinitions ==
    /\ Entries(bibfile) = {}
    /\ Entries(parent_bib) = {}
    /\ InlineDefs(Decode(tex)) = {}

\* validate_latex_file has just ended, with a report or in an exception.
Validated == rpc \in {"fix", "raised"}

\* C19 (as stated): when no bibliography definition is discoverable
\* anywhere, validate_latex_file reports no undefined citation whatever the
\* source cites, and gives the no-bibliography warning exactly if the source
\* cites a key; no report holds both undefined citations and that warning.
C19_NoBibliographyNoUndefined ==
    Validated
    => /\ NoDefinitions
          => /\ rpc = "fix"
             /\ report.undefined_citations = {}
             /\ NoBibliographyWarning \in report.warnings
                <=> cite_refs(Decode(tex)) # {}
       /\ ~(/\ report.undefined_citations # {}
            /\ NoBibliographyWarning \in report.warnings)

\* C20 (as stated): after fix_latex_issues no \includegraphics command of
\* the source names a file that validate_latex_file reported as missing,
\* with or without an image extension in the path, and validating the
\* fixed source again reports no missing figure.
C20_MissingFiguresReplaced ==
    (rpc = "bib" /\ called.auto_fix)
    => /\ \A cmd \in Units(Decode(tex), GraphicsCmds) :
            figure_file(cmd) \notin report.missing_figures
       /\ missing_figures(Decode(tex)) = {}

\* C21: fix_latex_issues, run with auto_fix on the report of the source,
\* turns every \ref, \eqref and \pageref command whose label the report
\* lists in undefined_labels into [REF:<name>] and leaves every reference to
\* a defined label as it is; validating the fixed source again gives no
\* undefined label.
C21_UndefinedRefsMarked ==
    [][ (rpc = "fix" /\ called.auto_fix)
        => LET before == Decode(tex)
               after == Decode(tex')
           IN  /\ Len(after) = Len(before)
               /\ \A i \in DOMAIN before :
                    before[i] \in LabelRefCmds
                    => after[i] = IF RefLabel(before[i]) \in report.undefined_labels
                                  THEN "[REF:" \o RefLabel(before[i]) \o "]"
                                  ELSE before[i]
               /\ undefined_labels(after) = {}
      ]_vars

\* The fix has replaced both kinds of undefined reference and kept a
\* defined one.
C21_Witness ==
    /\ rpc = "bib"
    /\ called.auto_fix
    /\ report.undefined_labels = {"l"}
    /\ Count(tex, {"[REF:l]"}) = 2
    /\ Has(tex, {"eqref{m}"})
    /\ Has(called.tex, {"ref{l}"}) /\ Has(called.tex, {"eqref{l}"})

\* A bibliography of some kind exists: a .bib in the working directory
\* (declared or not), a .bib in the parent directory, or an inline one.
BibliographyExists ==
    \/ bibfile # NoFile
    \/ parent_bib # NoFile
    \/ Has(Decode(tex), {BeginFileContents})

\* C22 (as stated): fix_latex_issues rewrites a citation command to [<key>]
\* only if no bibliography of any kind exists anywhere; whenever one exists
\* every citation command of the source is left unchanged.
C22_CitationsKept ==
    [][ (rpc = "fix" /\ BibliographyExists)
        => \A i \in DOMAIN Decode(tex) :
             Decode(tex)[i] \in CiteCmds => Decode(tex')[i] = Decode(tex)[i]
      ]_vars

\* ----------------------------- validate_and_fix_bibtex_files on its own
MaxFieldLen == 6   \* most characters of a field value

\* The characters a field value is written with.
ValueChars == {"A", " ", Ampersand, Backslash}

\* The .bib files of one entry with one field.
FieldFiles ==
    { <<"@article{k1,", NL>> \o Field(value) \o <<",", NL, FieldEnd, NL>> :
        value \in UNION { [1..n -> ValueChars] : n \in 0..MaxFieldLen } }

BibInit ==
    /\ ManagerInit
    /\ tex = NoFile
    /\ NoTemplateRun
    /\ working_dir = "/run/latex"
    /\ figures = {}
    /\ bibfile \in FieldFiles
    /\ bblfile \in BblFiles \cup {NoFile}
    /\ parent_bib = NoFile
    /\ NoRepairRun

\* Lines 647-786: validate_and_fix_bibtex_files(tex_file_dir, auto_fix)
\* called on the directory; without auto_fix nothing is written.
BibtexPass(af) ==
    /\ rpc \in {"idle", "bibtex"}
    /\ rpc' = IF rpc = "idle" THEN "bibtex" ELSE "bibtex again"
    /\ called' = [auto_fix |-> af, tex |-> tex, bib |-> bibfile, bbl |-> bblfile]
    /\ IF af THEN ValidateAndFixBibtexFiles ELSE UNCHANGED fileVars
    /\ UNCHANGED <<managerVars, tvVars, dirVars, backup, report, compiled>>

BibNext == \E af \in BOOLEAN : BibtexPass(af)

BibSpec == BibInit /\ [][BibNext]_vars

\* Every ampersand of the text has a backslash in front of it.
AllEscaped(content) ==
    \A i \in DOMAIN content :
        content[i] = Ampersand => (i > 1 /\ content[i - 1] = Backslash)

\* The text with a backslash put in front of every ampersand that has none.
RECURSIVE EscapeEach(_, _)
EscapeEach(content, escaped) ==
    IF content = <<>> THEN <<>>
    ELSE (IF Head(content) = Ampersand /\ ~escaped
          THEN <<Backslash, Ampersand>> ELSE <<Head(content)>>)
         \o EscapeEach(Tail(content), Head(content) = Backslash)

\* C23 (as stated): after one validate_and_fix_bibtex_files pass with
\* auto_fix over a .bib file every ampersand of a brace-delimited field
\* value has the escape prefix in front of it, whether the value held one
\* unescaped ampersand or several, and an ampersand that was escaped already
\* is not escaped again: the file is its text with each bare ampersand
\* escaped.
C23_AmpersandsEscaped ==
    (rpc = "bibtex" /\ called.auto_fix)
    => /\ AllEscaped(bibfile)
       /\ bibfile = EscapeEach(called.bib, FALSE)

\* ------------------------------------ extract_missing_packages_from_log
\* latex_package_manager.py, lines 199-235, on the text of a log.  A log is
\* the set of its lines that a pattern can match; a file name or a
\* \usepackage argument is the sequence of its pieces.
MaxLogLines == 2    \* most matching lines of a log
MaxSuffixes == 2    \* most extensions at the end of a file name

Stems == {"siunitx", "pkg"}
Extensions == {".sty", ".cls", ".pdf"}

\* siunitx.sty, pkg.cls, pkg.pdf, pkg.cls.sty, ...
FileNames ==
    { <<stem>> \o exts : stem \in Stems,
                         exts \in UNION { [1..n -> Extensions] : n \in 1..MaxSuffixes } }

\* The arguments of a \usepackage command: one package or a comma list.
PackageLists == { <<"siunitx">>, <<"pkg", ",", "siunitx">> }

LogLine(kind, text) == [kind |-> kind, text |-> text]

\* "! LaTeX Error: File `f' not found.", "! I can't find file `f'.",
\* "! Emergency stop." and the context line "l.4 \usepackage{...}".
LogLines ==
    { LogLine("LaTeX Error: File not found", f) : f \in FileNames }
    \cup { LogLine("I can't find file", f) : f \in FileNames }
    \cup { LogLine("Emergency stop", <<>>) }
    \cup { LogLine("l.4 \\usepackage", a) : a \in PackageLists }

Logs ==
    UNION { { { ls[i] : i \in 1..n } : ls \in [1..n -> LogLines] } :
            n \in 0..MaxLogLines }

\* The names on the lines of one kind.
Named(log, kind) == { l.text : l \in { k \in log : k.kind = kind } }

\* ([^'`]+)\.sty' : the name ends in the suffix, something stands before it.
EndsWith(name, suffix) == Len(name) >= 2 /\ name[Len(name)] = suffix

\* Group 1 of such a pattern: the name without that last suffix.
Stem(name) == Take(name, Len(name) - 1)

\* Line 221: m.replace('.sty', '').replace('.cls', ''), wherever they stand.
ReplaceSuffixes(name) == SelectSeq(name, LAMBDA u : u \notin {".sty", ".cls"})

\* Lines 203-206 and 213-216: patterns 1 and 3.
pattern1(log) ==
    { Stem(f) : f \in { g \in Named(log, "LaTeX Error: File not found") :
                          EndsWith(g, ".sty") } }
pattern3(log) ==
    { Stem(f) : f \in { g \in Named(log, "LaTeX Error: File not found") :
                          EndsWith(g, ".cls") } }

\* Lines 208-211: pattern 2, for style files only.
pattern2(log) ==
    { Stem(f) : f \in { g \in Named(log, "I can't find file") :
                          EndsWith(g, ".sty") } }

\* Lines 218-221: pattern 4, File `...' not found anywhere in the text,
\* filtered on the end of the name.
pattern4(log) ==
    { ReplaceSuffixes(f) :
        f \in { g \in Named(log, "LaTeX Error: File not found") :
                  g[Len(g)] \in {".sty", ".cls"} } }

\* Lines 224-228: pattern 5, the whole argument of each \usepackage line.
emergency_pattern(log) ==
    IF Named(log, "Emergency stop") # {}
    THEN Named(log, "l.4 \\usepackage") ELSE {}

\* Lines 199-235.
extract_missing_packages_from_log(log) ==
    pattern1(log) \cup pattern2(log) \cup pattern3(log) \cup pattern4(log)
    \cup emergency_pattern(log)

\* One call on the text of a log, as line 314 of the retry loop makes it.
ExtractCall(log) ==
    /\ pc = "idle"
    /\ pc' = "extracted"
    /\ log_content' = log
    /\ missing_packages' = extract_missing_packages_from_log(log)
    /\ UNCHANGED <<installed_packages, failed_packages, tlmgrCalls, lastInstall,
                   mode, outcome, srcState, pdfExists, symlinkExists,
                   max_attempts, attempt, rc, bib, passNo, passRc,
                   todo, installed_any, primaryCount, allUnextract,
                   symlinkMade, ret, auto_fix, stages, loopsRun, extraFix,
                   bibIssues, firstRet, vlocal, vret>>
    /\ UNCHANGED docVars

LogNext == \E log \in Logs : ExtractCall(log)

LogSpec == Init /\ [][LogNext]_vars

\* The style and class files a log reports missing, by the kinds of line the
\* patterns read.
MissingFiles(log) ==
    { f \in Named(log, "LaTeX Error: File not found") :
        EndsWith(f, ".sty") \/ EndsWith(f, ".cls") }
    \cup { f \in Named(log, "I can't find file") : EndsWith(f, ".sty") }

\* The packages of the inclusions shown after an emergency stop.
LastInclusions(log) ==
    IF Named(log, "Emergency stop") = {} THEN {}
    ELSE UNION { { <<a[i]>> : i \in DOMAIN a } :
                   a \in Named(log, "l.4 \\usepackage") } \ { <<",">> }

\* C24 (as stated): extract_missing_packages_from_log returns the union,
\* over all its log patterns, of the missing style and class files, each as
\* a bare package name without its .sty/.cls suffix and without duplicates
\* (a collection of values has none): a log naming siunitx.sty as not found
\* yields exactly siunitx, and a log no pattern matches yields the empty
\* collection.
C24_MissingPackagesExtracted ==
    pc = "extracted"
    => /\ missing_packages
            = { Stem(f) : f \in MissingFiles(log_content) }
              \cup LastInclusions(log_content)
       /\ \A p \in missing_packages : \A i \in DOMAIN p : p[i] # ","

\* The headline case and the empty case of C24 by themselves.
C24_Siunitx ==
    (pc = "extracted"
     /\ log_content = {LogLine("LaTeX Error: File not found", <<"siunitx", ".sty">>)})
    => missing_packages = {<<"siunitx">>}

\* ------------------------------------------- claims on the attempt loop
\* The PDF test of an attempt whose bibtex run exited zero.
AfterBibtex == pc = "c_pdf" /\ bib = "ok"

\* C25 (as stated): when the primary pass exits zero, citations are detected
\* in the auxiliary file and bibtex exits zero, the compiler is re-invoked
\* exactly twice more before the result of the attempt is decided.
C25_AsStated == AfterBibtex => passNo = BibtexPasses

\* C25 (amended): in that case the compiler is re-invoked at most twice
\* before the result of the attempt is decided: a second time only when the
\* first further pass exited zero, and once when the first further pass
\* exited non-zero, timed out or could not be run.
C25_PassesAfterBibtex ==
    /\ (pc = "c_pass")
       => bib = "ok" /\ passNo < BibtexPasses /\ (passNo = 1 => passRc = "exit0")
    /\ AfterBibtex
       => passNo \in 1..BibtexPasses /\ (passNo = 1 => passRc # "exit0")

C25_Witness == AfterBibtex /\ rc = "exit0" /\ passNo = BibtexPasses

\* The first further pass failed: one re-invocation only.
C25_OnePass == AfterBibtex /\ passNo = 1 /\ passRc = "exit1"

\* The last install_package call ran tlmgr, and tlmgr exited zero.
NewlyInstalled == lastInstall.invoked /\ lastInstall.ret

\* C26 (as stated): every retry after a failed attempt that did not time
\* out is preceded, in that attempt, by a new tlmgr invocation that
\* succeeded or by the creation of the symlink fallback; a package merely
\* found in the installed cache does not by itself cause another compiler
\* invocation.  Stated for the attempts whose log names one package, where
\* the last install_package call is the only one of the attempt.
C26_RetryNeedsNewInstall ==
    [][ (pc = "c_install" /\ todo = {} /\ Cardinality(missing_packages) = 1
         /\ StartsNextAttempt)
        => (symlinkMade \/ NewlyInstalled) ]_vars

\* The attempts are used up and the literal text is returned.
BudgetExhausted == ReturnsFailure(Literal("max")) /\ primaryCount' = max_attempts

\* C27 (as stated): when each of the max_attempts attempts fails with a
\* missing package that installs, the call makes exactly max_attempts
\* compiler invocations and returns (False, "Max compilation attempts
\* exceeded") instead of the last log; with max_attempts <= 0 it returns the
\* same pair without invoking the compiler.
C27_AsStated ==
    [][ /\ (pc = "c_install" /\ todo = {} /\ installed_any
              /\ attempt = max_attempts - 1)
           => BudgetExhausted
        /\ (pc = "c_entry" /\ max_attempts <= 0)
           => (BudgetExhausted /\ primaryCount' = 0) ]_vars

\* C27 (amended): the same, the second part for a source file that exists:
\* a missing source file is reported first, whatever max_attempts is.
C27_BudgetExhausted ==
    [][ /\ (pc = "c_install" /\ todo = {} /\ installed_any
              /\ attempt = max_attempts - 1)
           => BudgetExhausted
        /\ (pc = "c_entry" /\ max_attempts <= 0 /\ srcState # "missing")
           => (BudgetExhausted /\ primaryCount' = 0)
        /\ (pc = "c_entry" /\ srcState = "missing")
           => (ReturnsFailure(Literal("notfound")) /\ primaryCount' = 0) ]_vars

C27_Witness ==
    /\ LoopReturned /\ mode = "direct" /\ ret = [ok |-> FALSE, log |-> Literal("max")]
    /\ max_attempts = DefaultMaxAttempts /\ primaryCount = DefaultMaxAttempts
    /\ rc = "exit1" /\ installed_any

\* The budget of zero attempts.
C27_NoAttempt ==
    /\ LoopReturned /\ mode = "direct" /\ ret = [ok |-> FALSE, log |-> Literal("max")]
    /\ max_attempts = 0 /\ primaryCount = 0

\* ------------------------------------ further claims on the validator
\* The units of s whose index is not in cut, from index i on.
RECURSIVE WithoutIndices(_, _, _)
WithoutIndices(s, cut, i) ==
    IF i > Len(s) THEN <<>>
    ELSE (IF i \in cut THEN <<>> ELSE <<s[i]>>) \o WithoutIndices(s, cut, i + 1)

\* Number of lines of ls that read l.
Occurrences(ls, l) == Cardinality({ i \in DOMAIN ls : ls[i] = l })

\* C28 (as stated): the preamble check removes from the body exactly the
\* lines that hold a preamble-only command: every other character of the
\* body stays in place, and each moved line stands in the preamble exactly
\* once, also when one line matches several patterns or holds several
\* preamble commands.
C28_ExactlyCommandLinesMoved ==
    (Ran /\ fix /\ Has(Enveloped, {BeginDocument}) /\ MovedLines # {})
    => LET body == DocumentBody(Enveloped)
           cut == { i \in DOMAIN body :
                      \E f \in MovedLines : f.start <= i /\ i <= f.end }
           pre == SplitLines(Preamble(checked[2]))
           was == SplitLines(Preamble(Enveloped))
       IN  /\ DocumentBody(checked[2]) = WithoutIndices(body, cut, 1)
           /\ \A f \in MovedLines :
                Occurrences(pre, f.line)
                  = Occurrences(was, f.line)
                    + Cardinality({ g.start : g \in { h \in MovedLines : h.line = f.line } })

\* C29 (as stated): the output of validate_and_fix_template with auto_fix is
\* a fixed point of the repair: a second run with auto_fix on the repaired
\* file leaves the file as it is and applies no fix (the buffer it produces
\* is the buffer it read, no backup is written), for every input buffer.
C29_RepairIsFixedPoint ==
    [][ (Ran /\ fix /\ runs' = runs + 1 /\ fix')
        => ( /\ tex' = tex
             /\ checked'[7] = tex
             /\ structure_backup' = structure_backup
             /\ backup_created' = FALSE ) ]_vars

\* The commands validate_and_fix_template writes into a buffer.
InsertedCmds ==
    {MakeTitle, BeginAbstract, "bibliographystyle{iclr2025}",
     "bibliography{references}", "label{sec:s}", "label{sec:q}"}
    \cup FigureLabels

\* What stands before the first \begin{document} of s (all of s if it has
\* none), and what stands behind its first \end{document}.
BeforeDocument(s) == IF Has(s, {BeginDocument}) THEN Preamble(s) ELSE s
BehindDocument(s) ==
    IF Has(s, {EndDocument}) THEN Drop(s, First(s, {EndDocument})) ELSE <<>>

\* C30 (as stated): every command a run with auto_fix inserts (\maketitle, a
\* relocated abstract, \bibliographystyle, \bibliography, figure and section
\* labels) is placed between \begin{document} and \end{document}: after the
\* run no such command stands before \begin{document} or behind
\* \end{document} that did not stand there before the run.
C30_InsertedInsideDocument ==
    (Ran /\ fix)
    => \A u \in InsertedCmds :
         /\ Count(BeforeDocument(tex), {u})
              <= Count(BeforeDocument(original_content), {u})
         /\ Count(BehindDocument(tex), {u})
              <= Count(BehindDocument(original_content), {u})

====
